---- MODULE Spec2Model ----
(***************************************************************************)
(* A model of the Twitch streaming simulation core: the playback buffer     *)
(* (src/src/buffer.py), the network-condition generator                    *)
(* (src/src/network.py), the adaptive encoder (src/src/encoder.py), the    *)
(* QoE aggregator (src/src/quality.py) and the orchestrator                *)
(* (src/src/simulation.py).                                                *)
(*                                                                         *)
(* Floating-point quantities are fixed-point integers:                     *)
(*   buffer levels          1/100 s          (level_s = 300 is 3.0 s)       *)
(*   inflow and drain rates 1/100 s per s    (100 is 1x playback)           *)
(*   dt, stall time         whole seconds                                  *)
(*   bandwidth, bitrates    kbit/s           (500 is 0.5 Mbit/s)            *)
(*   safety factor, decay   percent                                        *)
(*   congestion level       1/20             (20 is full congestion)       *)
(*   latency                1/400 ms                                       *)
(*   packet loss            1/80000                                        *)
(*   A/V drift              1/1000 ms                                      *)
(*   scores                 1/1000 point     (10000 is 10.0)                *)
(*   QoE weights            1/2000000000     (800000000 is 0.4)             *)
(* A Python object is a record; a method is an operator from the object    *)
(* (and the arguments) to the object after the call and the value returned.*)
(***************************************************************************)
EXTENDS Integers, Sequences, FiniteSets, TLC

VARIABLES
    buffer,     \* the StreamBuffer object under test
    bufCall,    \* the last call made on it: operation, argument, is_stalled before,
                \* the resume events and the last event since construction or reset
    bufOut,     \* the dict returned by the last StreamBuffer.step
    scen,       \* the test driver's scenario: the constant feed rate, steps in the phase
    nets,       \* the NetworkCondition objects under test, by instance
    netHist,    \* per instance: how its stream began, the samples returned since
    encoder,    \* the StreamEncoder object under test
    encCall,    \* the last call made on it, the state it found, the run of high bandwidth
    encOut,     \* the dict returned by the last StreamEncoder.step
    sims,       \* the TwitchStreamSimulation objects, each with the reports run() returned
    metrics,    \* the QualityMetrics object under test, or the error its construction raised
    metCall,    \* the last call made on it, the record loops run, what reset() cleared
    metOut,     \* the dict returned by the last QualityMetrics.compute
    built,      \* the last constructor call: class, arguments, object or error
    loop        \* one pass of run()'s loop: the call due next, the values in flight

bufVars == <<buffer, bufCall, bufOut, scen>>
netVars == <<nets, netHist>>
encVars == <<encoder, encCall, encOut>>
metVars == <<metrics, metCall, metOut>>
vars == <<bufVars, netVars, encVars, sims, metVars, built, loop>>

Min(a, b) == IF a <= b THEN a ELSE b
Max(a, b) == IF a >= b THEN a ELSE b
Abs(a) == IF a >= 0 THEN a ELSE -a

\* Python's None, where an argument is an int or None (levels and seeds are >= 0).
None == -1

----------------------------------------------------------------------------
(* Bounds of the model.                                                     *)

\* StreamBuffer.step is not taken once total_stall_time_s has reached this.
MaxStallTime == 6
\* The scenario's count of steps in a phase stops counting here.
MaxPhaseSteps == 8
\* NetworkCondition.step is not taken once this many samples were returned
\* since the construction or the last reset.
MaxNetSteps == 4
\* StreamEncoder.step is not taken once it was called this many times since
\* the construction.
MaxEncSteps == 4
\* run() is not called again on a simulation that has returned this many reports.
MaxRuns == 2
\* A generator beside the simulations is not stepped beyond this many samples.
MaxGeneratorSteps == 2
\* No more than this many record loops are run on one aggregator.
MaxRecordLoops == 2
\* Steps of the generator whose congestion level is followed.
MaxCongestionSteps == 6
\* Calls of compute() after a run's loop.
MaxComputes == 2

----------------------------------------------------------------------------
(* numpy's random Generator, as far as the program uses it: a stream fixed  *)
(* by the seed, advanced by one position per draw. The stream is a full-   *)
(* period linear congruential sequence over 16 positions.                  *)

\* The states a Generator seeded from OS entropy (seed None) may start in.
Entropy == {0, 5}

\* A plausible slip: the seed is not handed on, every stream is unseeded.
default_rng_unseeded(seed, entropy) == entropy

\* np.random.default_rng(seed): a function of the seed, unless it is None.
default_rng(seed, entropy) == IF seed = None THEN entropy ELSE (7 * seed + 1) % 16

\* The Generator after one draw.
Advance(rng) == (5 * rng + 3) % 16

\* rng.uniform(0, 2*pi) on the advanced state, in eighths of a turn.
DrawPhase(rng) == rng % 8

\* rng.random() < congestion_probability (percent) on the advanced state:
\* random() is rng/16, in [0, 1).
DrawOnset(rng, congestion_probability) == rng * 100 < congestion_probability * 16

\* A standard normal deviate on the advanced state, in units of one sigma.
DrawZ(rng) == ((rng \div 2) % 5) - 2

\* rng.lognormal(0, sigma) on the advanced state, in 1/1000: exp(sigma*z),
\* to first order above 1 and its reciprocal below, so always positive.
DrawLogNormal(rng, sigma) ==
    LET z == DrawZ(rng)
    IN  IF z >= 0 THEN 1000 + 10 * sigma * z
                  ELSE 1000000 \div (1000 + 10 * sigma * (-z))

----------------------------------------------------------------------------
(* src/src/network.py                                                       *)

\* sin at the eighths of a turn, in 1/1000.
SinTable == <<0, 707, 1000, 707, 0, -707, -1000, -707>>
Sin(eighths) == SinTable[(eighths % 8) + 1]

\* The configurations the generator is constructed with: the defaults, the
\* tests' (certain onset; stable; poor), the edges of the documented ranges,
\* and one with a base packet loss above 0.9.
NetDefaults ==
    [base_bandwidth_mbps |-> 10000, oscillation_amplitude |-> 30,
     oscillation_freq_hz |-> 1, noise_sigma |-> 10,
     congestion_probability |-> 2, congestion_severity |-> 12,
     congestion_recovery_rate |-> 3, base_latency_ms |-> 20,
     base_packet_loss |-> 80]
NetConfigs ==
    { NetDefaults,
      [NetDefaults EXCEPT !.congestion_probability = 100],
      [NetDefaults EXCEPT !.base_bandwidth_mbps = 20000,
                          !.oscillation_amplitude = 5,
                          !.congestion_probability = 0, !.noise_sigma = 2],
      [NetDefaults EXCEPT !.base_bandwidth_mbps = 2000,
                          !.oscillation_amplitude = 60,
                          !.congestion_probability = 15,
                          !.congestion_severity = 18, !.noise_sigma = 30],
      [NetDefaults EXCEPT !.oscillation_amplitude = 100,
                          !.congestion_probability = 50,
                          !.congestion_severity = 20,
                          !.congestion_recovery_rate = 20,
                          !.base_packet_loss = 72000],
      [NetDefaults EXCEPT !.congestion_probability = 100,
                          !.congestion_severity = 20,
                          !.base_packet_loss = 76000] }
NetSeeds == {None, 3, 4}

\* NetworkCondition.__init__: the phase is the first draw of the stream.
NetworkCondition_init(cfg, seed, entropy) ==
    LET rng == Advance(default_rng(seed, entropy))
    IN  [cfg |-> cfg, seed |-> seed, rng |-> rng, phase |-> DrawPhase(rng),
         congestion_level |-> 0, congestion_rounding |-> 0, step |-> 0,
         dt |-> 1]

\* The congestion level is a float64.  The model keeps it as the decimal value
\* congestion_level (1/20) plus congestion_rounding, the excess of the double
\* over that decimal in units of 2^-57 / 5; one twentieth is 2^55 of these
\* units, and 2^55 leaves 128 on division by 320, of which every spacing of
\* doubles between 2^-5 and 2 (5, 10, ..., 160 units) is a divisor.
TwentiethMod320 == 128

\* The spacing of the doubles around the value k/20 + e units.
Ulp(k, e) ==
    IF k > 20 \/ (k = 20 /\ e >= 0) THEN 160
    ELSE IF k > 10 \/ (k = 10 /\ e >= 0) THEN 80
    ELSE IF k > 5 \/ (k = 5 /\ e >= 0) THEN 40
    ELSE IF k >= 3 THEN 20
    ELSE IF k = 2 THEN 10
    ELSE IF k = 1 THEN 5
    ELSE 1

\* Round to nearest, ties to even: the excess of the double nearest to
\* k/20 + e units (e is worked out once).  Below 2^-5 the values that arise
\* are differences of nearby doubles, which are doubles.
RoundToDouble(k, e) ==
    CHOOSE rounded \in
        { LET ulp == Ulp(k, excess)
              r == (k * TwentiethMod320 + excess) % ulp
          IN  IF 2 * r < ulp THEN excess - r
              ELSE IF 2 * r > ulp THEN excess - r + ulp
              ELSE IF (k * TwentiethMod320 + excess - r) % (2 * ulp) = 0
                   THEN excess - r
              ELSE excess - r + ulp :
          excess \in {e} } : TRUE

\* The excess of the double a decimal parameter k/20 is stored as.
DoubleOf(k) == RoundToDouble(k, 0)

\* The excess of min(1.0, level + severity).
OnsetRounding(self) ==
    LET k == self.congestion_level + self.cfg.congestion_severity
        e == RoundToDouble(k, self.congestion_rounding
                                + DoubleOf(self.cfg.congestion_severity))
    IN  IF k > 20 \/ (k = 20 /\ e > 0) THEN 0 ELSE e

\* The excess of max(0.0, level - recovery rate).
RecoveryRounding(self) ==
    LET k == self.congestion_level - self.cfg.congestion_recovery_rate
        e == self.congestion_rounding
               - DoubleOf(self.cfg.congestion_recovery_rate)
    IN  IF k < 0 THEN 0
        ELSE IF k = 0 THEN Max(e, 0)
        ELSE RoundToDouble(k, e)

\* A plausible slip: the onset jump is not clamped to 1.
CongestionOnset_noclamp(self) ==
    self.congestion_level + self.cfg.congestion_severity

\* The congestion level after an onset: up by the severity, clamped to 1.
CongestionOnset(self) ==
    Min(20, self.congestion_level + self.cfg.congestion_severity)

\* A plausible slip: the recovery is not clamped to 0.
CongestionRecovery_noclamp(self) ==
    self.congestion_level - self.cfg.congestion_recovery_rate

\* The congestion level after a step without onset: down by the recovery rate.
CongestionRecovery(self) ==
    Max(0, self.congestion_level - self.cfg.congestion_recovery_rate)

\* bandwidth: the floored product of base, oscillation, noise and availability.
Bandwidth(self, sinusoidal, noise, congestion) ==
    Max(100, (((((self.cfg.base_bandwidth_mbps * sinusoidal) \div 1000) * noise)
                 \div 1000) * (20 - congestion)) \div 20)

\* NetworkCondition.step: two draws (noise, onset), then the sample.
NetworkCondition_step(self) ==
    LET t == self.step * self.dt
        sinusoidal == 1000 + (self.cfg.oscillation_amplitude
                              * Sin(self.cfg.oscillation_freq_hz * t + self.phase))
                             \div 100
        rng1 == Advance(self.rng)
        noise == DrawLogNormal(rng1, self.cfg.noise_sigma)
        rng2 == Advance(rng1)
        onset == DrawOnset(rng2, self.cfg.congestion_probability)
        congestion == IF onset
                      THEN CongestionOnset(self)
                      ELSE CongestionRecovery(self)
        rounding == IF onset
                    THEN OnsetRounding(self)
                    ELSE RecoveryRounding(self)
    IN  [self |-> [self EXCEPT !.step = @ + 1, !.rng = rng2,
                               !.congestion_level = congestion,
                               !.congestion_rounding = rounding],
         out |-> [bandwidth_mbps |-> Bandwidth(self, sinusoidal, noise, congestion),
                  latency_ms |-> self.cfg.base_latency_ms
                                   * (400 + 3 * congestion * congestion),
                  packet_loss |-> self.cfg.base_packet_loss
                                    + congestion * congestion * congestion,
                  congestion_level |-> congestion]]

\* NetworkCondition.reset(seed): a new stream only when a seed is given; the
\* phase is drawn again from the stream as it stands.
NetworkCondition_reset(self, seed) ==
    LET rng == Advance(IF seed # None THEN default_rng(seed, 0) ELSE self.rng)
    IN  [self EXCEPT !.rng = rng, !.phase = DrawPhase(rng),
                     !.congestion_level = 0, !.congestion_rounding = 0,
                     !.step = 0]

----------------------------------------------------------------------------
(* src/src/buffer.py                                                        *)

\* The configurations the buffer is constructed with (1/100 s, 1/100 s/s, s).
BufMaxLevels == {200, 300}
BufThresholds == {0, 100, 200, 300}
BufLevels == {0, 50, 100, 150, 200, 250, 300}
BufDrainRates == {50, 100}
BufDts == {1, 2}
\* The inflow rates step() is called with (all >= 0).
Inflows == {0, 50, 100, 150, 300, 1000}

\* The constructor returned an object: it did not raise.
Constructed(obj) == "error" \notin DOMAIN obj

\* StreamBuffer.__init__: raises ValueError when the threshold exceeds the maximum.
StreamBuffer_init(max_level_s, initial_level_s, rebuffer_threshold_s, drain_rate_s_per_s, dt) ==
    IF rebuffer_threshold_s > max_level_s
    THEN [error |-> "ValueError"]
    ELSE [max_level_s |-> max_level_s,
          rebuffer_threshold_s |-> rebuffer_threshold_s,
          drain_rate_s_per_s |-> drain_rate_s_per_s,
          dt |-> dt,
          level_s |-> initial_level_s,
          is_stalled |-> FALSE,
          total_stall_time_s |-> 0,
          stall_count |-> 0]

\* A plausible slip: the stalled refill forgets the cap at max_level_s.
StalledLevel_nocap(self, inflow_rate_s_per_s) ==
    self.level_s + inflow_rate_s_per_s * self.dt

\* The level after a step taken while stalled: inflow only, capped.
StalledLevel(self, inflow_rate_s_per_s) ==
    Min(self.max_level_s, self.level_s + inflow_rate_s_per_s * self.dt)

\* A plausible slip: the drain is left out of the net rate.
ProjectedLevel_nodrain(self, inflow_rate_s_per_s) ==
    self.level_s + inflow_rate_s_per_s * self.dt

\* new_level of a step taken while playing: net rate times dt.
ProjectedLevel(self, inflow_rate_s_per_s) ==
    self.level_s + (inflow_rate_s_per_s - self.drain_rate_s_per_s) * self.dt

\* A plausible slip: resume as soon as anything is buffered.
ResumeCondition_anylevel(self, level) == level > 0

\* The resume condition of a stalled step, on the level after the refill.
ResumeCondition(self, level) == level >= self.rebuffer_threshold_s

\* A plausible slip: the overflow branch counts the step as a stall.
OverflowBranch_stalls(self) ==
    [self |-> [self EXCEPT !.level_s = self.max_level_s,
                           !.stall_count = @ + 1],
     out |-> [level_s |-> self.max_level_s, is_stalled |-> self.is_stalled,
              stall_event |-> FALSE, resume_event |-> FALSE, overflow |-> TRUE]]

\* The branch new_level >= max_level_s of a step taken while playing.
OverflowBranch(self) ==
    [self |-> [self EXCEPT !.level_s = self.max_level_s],
     out |-> [level_s |-> self.max_level_s, is_stalled |-> self.is_stalled,
              stall_event |-> FALSE, resume_event |-> FALSE, overflow |-> TRUE]]

\* StreamBuffer.step: the object after the call and the dict returned.
StreamBuffer_step(self, inflow_rate_s_per_s) ==
    IF self.is_stalled
    THEN LET level == StalledLevel(self, inflow_rate_s_per_s)
             resume == ResumeCondition(self, level)
         IN  [self |-> [self EXCEPT !.level_s = level,
                                    !.total_stall_time_s = @ + self.dt,
                                    !.is_stalled = ~resume],
              out |-> [level_s |-> level, is_stalled |-> ~resume,
                       stall_event |-> FALSE, resume_event |-> resume,
                       overflow |-> FALSE]]
    ELSE LET new_level == ProjectedLevel(self, inflow_rate_s_per_s)
         IN  IF new_level >= self.max_level_s
             THEN OverflowBranch(self)
             ELSE IF new_level <= 0
             THEN [self |-> [self EXCEPT !.level_s = 0,
                                         !.is_stalled = TRUE,
                                         !.stall_count = @ + 1,
                                         !.total_stall_time_s = @ + self.dt],
                   out |-> [level_s |-> 0, is_stalled |-> TRUE,
                            stall_event |-> TRUE, resume_event |-> FALSE,
                            overflow |-> FALSE]]
             ELSE [self |-> [self EXCEPT !.level_s = new_level],
                   out |-> [level_s |-> new_level, is_stalled |-> FALSE,
                            stall_event |-> FALSE, resume_event |-> FALSE,
                            overflow |-> FALSE]]

\* A plausible slip: reset() with no argument leaves the level as it is.
StreamBuffer_reset_keepslevel(self, initial_level_s) ==
    [self EXCEPT !.level_s = IF initial_level_s = None
                             THEN self.level_s
                             ELSE initial_level_s,
                 !.is_stalled = FALSE,
                 !.total_stall_time_s = 0,
                 !.stall_count = 0]

\* StreamBuffer.reset: initial_level_s = None stands for the omitted argument.
StreamBuffer_reset(self, initial_level_s) ==
    [self EXCEPT !.level_s = IF initial_level_s = None
                             THEN self.rebuffer_threshold_s
                             ELSE initial_level_s,
                 !.is_stalled = FALSE,
                 !.total_stall_time_s = 0,
                 !.stall_count = 0]

\* The buffers a caller can construct: the constructor did not raise, and the
\* initial level is within the capacity.
BufferObjects ==
    { b \in { StreamBuffer_init(c[1], c[2], c[3], c[4], c[5]) :
                c \in { x \in BufMaxLevels \X BufLevels \X BufThresholds
                              \X BufDrainRates \X BufDts : x[2] <= x[1] } } :
        Constructed(b) }

NoCall ==
    [op |-> "init", inflow_rate_s_per_s |-> 0, was_stalled |-> FALSE,
     resumes |-> 0, last_event |-> "none"]
NoOut == [level_s |-> 0, is_stalled |-> FALSE, stall_event |-> FALSE,
          resume_event |-> FALSE, overflow |-> FALSE]
NoScen == [feed |-> 0, steps |-> 0]

----------------------------------------------------------------------------
(* src/src/encoder.py                                                       *)

\* QUALITY_LEVELS / QUALITY_LADDER: name, video and audio kbit/s, minimum
\* bandwidth (kbit/s). Python's index i is position i + 1 here.
QUALITY_LADDER ==
    << [name |-> "160p",    video_kbps |-> 300,  audio_kbps |-> 96,  min_bandwidth_mbps |-> 500],
       [name |-> "360p",    video_kbps |-> 800,  audio_kbps |-> 128, min_bandwidth_mbps |-> 1200],
       [name |-> "480p",    video_kbps |-> 1500, audio_kbps |-> 160, min_bandwidth_mbps |-> 2500],
       [name |-> "720p",    video_kbps |-> 3000, audio_kbps |-> 192, min_bandwidth_mbps |-> 4000],
       [name |-> "720p60",  video_kbps |-> 4500, audio_kbps |-> 192, min_bandwidth_mbps |-> 6000],
       [name |-> "1080p",   video_kbps |-> 6000, audio_kbps |-> 320, min_bandwidth_mbps |-> 8000],
       [name |-> "1080p60", video_kbps |-> 8000, audio_kbps |-> 320, min_bandwidth_mbps |-> 10000] >>

\* QualityLevel.total_kbps.
total_kbps(level) == level.video_kbps + level.audio_kbps

\* Python's QUALITY_LADDER[i].
Ladder(i) == QUALITY_LADDER[i + 1]
TopIndex == Len(QUALITY_LADDER) - 1

\* The configurations the encoder is constructed with: the defaults, the
\* tests' (hysteresis 1; no noise), and factors of 1 and above.
EncDefaults ==
    [safety_factor |-> 85, upgrade_hysteresis |-> 3, av_sync_decay |-> 95,
     av_sync_noise |-> 500, seed |-> 3]
EncConfigs ==
    { EncDefaults,
      [EncDefaults EXCEPT !.upgrade_hysteresis = 1, !.seed = 0],
      [EncDefaults EXCEPT !.av_sync_noise = 0, !.seed = 0],
      [EncDefaults EXCEPT !.safety_factor = 100, !.upgrade_hysteresis = 2,
                          !.av_sync_decay = 50, !.av_sync_noise = 0],
      [EncDefaults EXCEPT !.safety_factor = 300, !.upgrade_hysteresis = 1,
                          !.seed = None] }
\* The bandwidths step() is called with (kbit/s, all >= 0).
BwInputs == {200, 450, 5000, 10500, 20000}

\* StreamEncoder.__init__.
StreamEncoder_init(cfg, entropy) ==
    [safety_factor |-> cfg.safety_factor,
     upgrade_hysteresis |-> cfg.upgrade_hysteresis,
     av_sync_decay |-> cfg.av_sync_decay,
     av_sync_noise |-> cfg.av_sync_noise,
     rng |-> default_rng(cfg.seed, entropy),
     quality_index |-> 0,
     consecutive_upgrade_steps |-> 0,
     av_sync_drift_ms |-> 0,
     current_quality |-> Ladder(0)]

\* effective_bandwidth, in 1/100 kbit/s: bandwidth (kbit/s) times the factor (%).
EffectiveBandwidth(self, available_bandwidth_mbps) ==
    available_bandwidth_mbps * self.safety_factor

\* The loop of _select_quality_index from ladder index i on.
RECURSIVE SelectFrom(_, _, _)
SelectFrom(i, best, effective_bandwidth) ==
    IF i > TopIndex
    THEN best
    ELSE SelectFrom(i + 1,
                    IF effective_bandwidth >= Ladder(i).min_bandwidth_mbps * 100
                    THEN i ELSE best,
                    effective_bandwidth)

\* A plausible slip: the scan starts from the level in use, not from 0.
select_quality_index_sticky(self, effective_bandwidth) ==
    SelectFrom(0, self.quality_index, effective_bandwidth)

\* StreamEncoder._select_quality_index.
select_quality_index(self, effective_bandwidth) ==
    SelectFrom(0, 0, effective_bandwidth)

\* A plausible slip: a downgrade goes one rung at a time.
Downgrade_onerung(self, target_index) ==
    [self EXCEPT !.quality_index = @ - 1, !.consecutive_upgrade_steps = 0]

\* The branch target_index < _quality_index.
Downgrade(self, target_index) ==
    [self EXCEPT !.quality_index = target_index,
                 !.consecutive_upgrade_steps = 0]

\* A plausible slip: a committed upgrade goes one rung at a time.
Upgrade_onerung(self, target_index) ==
    IF self.consecutive_upgrade_steps + 1 >= self.upgrade_hysteresis
    THEN [self EXCEPT !.quality_index = @ + 1,
                      !.consecutive_upgrade_steps = 0]
    ELSE [self EXCEPT !.consecutive_upgrade_steps = @ + 1]

\* The branch target_index > _quality_index.
Upgrade(self, target_index) ==
    IF self.consecutive_upgrade_steps + 1 >= self.upgrade_hysteresis
    THEN [self EXCEPT !.quality_index = target_index,
                      !.consecutive_upgrade_steps = 0]
    ELSE [self EXCEPT !.consecutive_upgrade_steps = @ + 1]

\* A plausible slip: the counter survives a step with no headroom.
Hold_keepcount(self) == self

\* The branch target_index == _quality_index.
Hold(self) == [self EXCEPT !.consecutive_upgrade_steps = 0]

\* The quality selection of step(): the object after it.
SelectQuality(self, target_index) ==
    LET sel == IF target_index < self.quality_index
               THEN Downgrade(self, target_index)
               ELSE IF target_index > self.quality_index
               THEN Upgrade(self, target_index)
               ELSE Hold(self)
    IN  [sel EXCEPT !.current_quality = Ladder(sel.quality_index)]

\* A plausible slip: the stalled cap of 3.0 applies to every step.
InflowRate_samecap(effective_bandwidth, quality, is_stalled) ==
    Min(effective_bandwidth \div total_kbps(quality), 300)

\* inflow_rate: effective bandwidth over the level's bitrate, capped at 3.0
\* while stalled and 2.0 otherwise.
InflowRate(effective_bandwidth, quality, is_stalled) ==
    Min(effective_bandwidth \div total_kbps(quality),
        IF is_stalled THEN 300 ELSE 200)

\* A plausible slip: a stall adds nothing to the drift.
StallPenalty_none(is_stalled) == 0

\* stall_penalty: 5.0 ms while stalled.
StallPenalty(is_stalled) == IF is_stalled THEN 5000 ELSE 0

\* StreamEncoder.step: the object after the call and the dict returned.
StreamEncoder_step(self, available_bandwidth_mbps, buffer_state) ==
    LET effective_bandwidth == EffectiveBandwidth(self, available_bandwidth_mbps)
        is_stalled == buffer_state.is_stalled
        target_index == select_quality_index(self, effective_bandwidth)
        previous_index == self.quality_index
        sel == SelectQuality(self, target_index)
        quality_switch == sel.quality_index # previous_index
        inflow_rate == InflowRate(effective_bandwidth, sel.current_quality, is_stalled)
        dropped_frames == inflow_rate < 100 \/ is_stalled
        rng == Advance(self.rng)
        base_noise == self.av_sync_noise * DrawZ(rng)
        stall_penalty == StallPenalty(is_stalled)
        switch_penalty == Abs(sel.quality_index - previous_index) * 2000
        drift == (self.av_sync_drift_ms * self.av_sync_decay) \div 100
                 + base_noise + stall_penalty + switch_penalty
    IN  [self |-> [sel EXCEPT !.rng = rng, !.av_sync_drift_ms = drift],
         out |-> [quality |-> sel.current_quality,
                  quality_name |-> sel.current_quality.name,
                  inflow_rate_s_per_s |-> inflow_rate,
                  av_sync_drift_ms |-> drift,
                  quality_switch |-> quality_switch,
                  dropped_frames |-> dropped_frames]]

\* StreamEncoder.reset: the random stream is left as it stands.
StreamEncoder_reset(self) ==
    [self EXCEPT !.quality_index = 0, !.consecutive_upgrade_steps = 0,
                 !.av_sync_drift_ms = 0, !.current_quality = Ladder(0)]

NoEncCall ==
    [op |-> "init", available_bandwidth_mbps |-> 0, is_stalled |-> FALSE,
     previous_index |-> 0, previous_count |-> 0,
     previous_drift |-> 0, follows_playing |-> FALSE,
     high_raw |-> 0, high_eff |-> 0, eligible |-> 0, steps |-> 0]
NoEncOut ==
    [quality |-> Ladder(0), quality_name |-> Ladder(0).name,
     inflow_rate_s_per_s |-> 0, av_sync_drift_ms |-> 0,
     quality_switch |-> FALSE, dropped_frames |-> FALSE]

----------------------------------------------------------------------------
(* src/src/quality.py                                                       *)

\* Python's empty dict.
EmptyDict == [k \in {} |-> 0]

\* The weight 1.0, and the tolerance 1e-9 on the sum of the weights.
WeightOne == 2000000000
WeightTolerance == 2

\* The weight w / 1000.
Weight(w) == w * (WeightOne \div 1000)

\* The weights and threshold (ms) the aggregator is constructed with by default.
QualityDefaults ==
    [av_sync_threshold_ms |-> 40, jerk_weight |-> Weight(400),
     av_sync_weight |-> Weight(350), quality_stability_weight |-> Weight(250)]

\* A plausible slip: the tolerance is taken inclusive.
WeightsRejected_inclusive(jerk_weight, av_sync_weight, quality_stability_weight) ==
    Abs(jerk_weight + av_sync_weight + quality_stability_weight - WeightOne) >= WeightTolerance

\* abs(jerk_weight + av_sync_weight + quality_stability_weight - 1.0) > 1e-9.
WeightsRejected(jerk_weight, av_sync_weight, quality_stability_weight) ==
    Abs(jerk_weight + av_sync_weight + quality_stability_weight - WeightOne) > WeightTolerance

\* QualityMetrics.__init__: raises ValueError unless the weights sum to 1.
QualityMetrics_init(cfg) ==
    IF WeightsRejected(cfg.jerk_weight, cfg.av_sync_weight, cfg.quality_stability_weight)
    THEN [error |-> "ValueError"]
    ELSE [av_sync_threshold_ms |-> cfg.av_sync_threshold_ms,
          jerk_weight |-> cfg.jerk_weight,
          av_sync_weight |-> cfg.av_sync_weight,
          quality_stability_weight |-> cfg.quality_stability_weight,
          steps |-> <<>>]

\* The snapshot record() keeps of one step.
Snapshot(buffer_state, encoder_state) ==
    [is_stalled |-> buffer_state.is_stalled,
     stall_event |-> buffer_state.stall_event,
     buffer_level_s |-> buffer_state.level_s,
     av_sync_drift_ms |-> encoder_state.av_sync_drift_ms,
     quality_switch |-> encoder_state.quality_switch,
     quality_name |-> encoder_state.quality_name,
     dropped_frames |-> encoder_state.dropped_frames]

\* A plausible slip: record() appends the snapshot twice.
QualityMetrics_record_twice(self, buffer_state, encoder_state) ==
    [self EXCEPT !.steps = Append(Append(@, Snapshot(buffer_state, encoder_state)),
                                  Snapshot(buffer_state, encoder_state))]

\* QualityMetrics.record: one snapshot appended.
QualityMetrics_record(self, buffer_state, encoder_state) ==
    [self EXCEPT !.steps = Append(@, Snapshot(buffer_state, encoder_state))]

\* sum(1 for s in steps if s[flag]).
CountFlag(steps, flag) == Cardinality({k \in 1..Len(steps) : steps[k][flag]})

\* sum(q[1..k]).
RECURSIVE SumTo(_, _)
SumTo(q, k) == IF k = 0 THEN 0 ELSE q[k] + SumTo(q, k - 1)

\* sum(q).
SumSeq(q) == SumTo(q, Len(q))

\* sum(s[field] for s in steps).
SumField(steps, field) == SumSeq([k \in 1..Len(steps) |-> steps[k][field]])

\* abs_drifts: the absolute drift of every snapshot.
AbsDrifts(steps) == [k \in 1..Len(steps) |-> Abs(steps[k].av_sync_drift_ms)]

\* max(q).
MaxSeq(q) == CHOOSE x \in {q[k] : k \in 1..Len(q)} : \A k \in 1..Len(q) : q[k] <= x

\* A plausible slip: dropped frames weigh as much as stalls.
JerkinessScore_heavy(stall_ratio, dropped_frame_ratio) ==
    Max(0, 10000 - 3 * stall_ratio - 3 * dropped_frame_ratio)

\* A plausible slip: dropped frames cost nothing.
JerkinessScore_stallsonly(stall_ratio, dropped_frame_ratio) ==
    Max(0, 10000 - 3 * stall_ratio)

\* A plausible slip: min is written for max.
JerkinessScore_min(stall_ratio, dropped_frame_ratio) ==
    Min(0, 10000 - 3 * stall_ratio - dropped_frame_ratio)

\* jerkiness_score: 10.0 * max(0.0, 1.0 - 3.0 * stall_ratio - dropped_frame_ratio).
JerkinessScore(stall_ratio, dropped_frame_ratio) ==
    Max(0, 10000 - 3 * stall_ratio - dropped_frame_ratio)

\* A weight in 1/1000, as compute() multiplies it with a score.
Thousandths(weight) == weight \div (WeightOne \div 1000)

\* QualityMetrics.compute. Ratios are in 1/10000, the switch rate in 1/1000
\* per minute, scores in 1/1000 point; a division rounds down.
QualityMetrics_compute(self) ==
    LET n == Len(self.steps)
        stall_events == CountFlag(self.steps, "stall_event")
        stalled_steps == CountFlag(self.steps, "is_stalled")
        stall_ratio == (stalled_steps * 10000) \div n
        abs_drifts == AbsDrifts(self.steps)
        mean_drift == SumSeq(abs_drifts) \div n
        max_drift == MaxSeq(abs_drifts)
        out_of_sync_steps ==
            Cardinality({k \in 1..n : abs_drifts[k] > self.av_sync_threshold_ms * 1000})
        av_out_of_sync_ratio == (out_of_sync_steps * 10000) \div n
        quality_switches == CountFlag(self.steps, "quality_switch")
        quality_switch_rate == (quality_switches * 60000) \div n
        mean_buffer == SumField(self.steps, "buffer_level_s") \div n
        dropped_steps == CountFlag(self.steps, "dropped_frames")
        dropped_frame_ratio == (dropped_steps * 10000) \div n
        jerkiness_score == JerkinessScore(stall_ratio, dropped_frame_ratio)
        av_sync_score ==
            Max(0, 10000 - av_out_of_sync_ratio
                     - Min(mean_drift \div self.av_sync_threshold_ms, 10000))
        quality_stability_score ==
            Max(0, 10000 - (quality_switch_rate * 10) \div 6)
        overall_qoe ==
            (Thousandths(self.jerk_weight) * jerkiness_score
             + Thousandths(self.av_sync_weight) * av_sync_score
             + Thousandths(self.quality_stability_weight) * quality_stability_score)
            \div 1000
    IN  IF n = 0
        THEN EmptyDict
        ELSE [total_steps |-> n,
              stall_count |-> stall_events,
              total_stall_time_s |-> stalled_steps,
              stall_ratio |-> stall_ratio,
              mean_av_sync_drift_ms |-> mean_drift,
              max_av_sync_drift_ms |-> max_drift,
              av_out_of_sync_ratio |-> av_out_of_sync_ratio,
              quality_switch_count |-> quality_switches,
              quality_switch_rate |-> quality_switch_rate,
              mean_buffer_level_s |-> mean_buffer,
              dropped_frame_ratio |-> dropped_frame_ratio,
              jerkiness_score |-> jerkiness_score,
              av_sync_score |-> av_sync_score,
              quality_stability_score |-> quality_stability_score,
              overall_qoe |-> overall_qoe]

\* A plausible slip: reset() leaves the recorded snapshots.
QualityMetrics_reset_keeps(self) == self

\* QualityMetrics.reset.
QualityMetrics_reset(self) == [self EXCEPT !.steps = <<>>]

\* The configurations the aggregator is constructed with: the defaults, one
\* weight carrying all, a negative weight, sums off 1.0 by the tolerance and
\* by more, and the sum 1.05.
MetricsConfigs ==
    { QualityDefaults,
      [QualityDefaults EXCEPT !.jerk_weight = Weight(1000), !.av_sync_weight = 0,
                              !.quality_stability_weight = 0],
      [QualityDefaults EXCEPT !.jerk_weight = 0, !.av_sync_weight = 0,
                              !.quality_stability_weight = Weight(1000)],
      [QualityDefaults EXCEPT !.jerk_weight = Weight(1050),
                              !.av_sync_weight = Weight(-50),
                              !.quality_stability_weight = 0],
      [QualityDefaults EXCEPT !.jerk_weight = @ + WeightTolerance],
      [QualityDefaults EXCEPT !.jerk_weight = @ + WeightTolerance + 1],
      [QualityDefaults EXCEPT !.av_sync_weight = @ - WeightTolerance - 1],
      [QualityDefaults EXCEPT !.jerk_weight = Weight(400),
                              !.av_sync_weight = Weight(400)] }

\* The dicts the tests record: _buf(...) and _enc(...).
buf_state(is_stalled, stall_event, level) ==
    [is_stalled |-> is_stalled, stall_event |-> stall_event, level_s |-> level,
     resume_event |-> FALSE, overflow |-> FALSE]
enc_state(drift, switch, dropped, quality) ==
    [av_sync_drift_ms |-> drift, quality_switch |-> switch,
     quality_name |-> quality, dropped_frames |-> dropped]

\* The pairs recorded: a perfect step, dropped frames, a stall, a switch,
\* drift beyond the threshold, and a small negative drift.
Snapshots ==
    { [buf |-> buf_state(FALSE, FALSE, 500), enc |-> enc_state(0, FALSE, FALSE, "720p")],
      [buf |-> buf_state(FALSE, FALSE, 500), enc |-> enc_state(0, FALSE, TRUE, "720p")],
      [buf |-> buf_state(TRUE, TRUE, 0), enc |-> enc_state(0, FALSE, TRUE, "720p")],
      [buf |-> buf_state(FALSE, FALSE, 500), enc |-> enc_state(0, TRUE, FALSE, "480p")],
      [buf |-> buf_state(FALSE, FALSE, 500), enc |-> enc_state(200000, FALSE, FALSE, "720p")],
      [buf |-> buf_state(FALSE, FALSE, 500), enc |-> enc_state(-3000, FALSE, FALSE, "720p")] }

\* The lengths of the tests' record loops.
LoopLengths == {1, 49, 50, 51}

\* for _ in range(n): qm.record(buffer_state, encoder_state).
RecordLoop(self, n, buffer_state, encoder_state) ==
    [self EXCEPT !.steps = @ \o [k \in 1..n |-> Snapshot(buffer_state, encoder_state)]]

NoBuilt == [class |-> "none"]
NoNetOut ==
    [bandwidth_mbps |-> 0, latency_ms |-> 0, packet_loss |-> 0,
     congestion_level |-> 0]
NoLoop ==
    [pc |-> "idle", step |-> 0, total |-> 0, computes |-> 0,
     net |-> NoNetOut, prev_buffer_state |-> NoOut]

NoMetCall == [op |-> "init", cfg |-> QualityDefaults, loops |-> 0, cleared |-> 0]

----------------------------------------------------------------------------
(* src/src/simulation.py                                                    *)

\* A kwargs dict without the key "seed".
NotGiven == -2

\* The buffer_kwargs of a run: the defaults, a small buffer that drains
\* faster than any inflow, and a small buffer that stalls within a few steps.
BufferDefaults ==
    [max_level_s |-> 3000, initial_level_s |-> 500, rebuffer_threshold_s |-> 300,
     drain_rate_s_per_s |-> 100]
BufferFast ==
    [max_level_s |-> 300, initial_level_s |-> 200, rebuffer_threshold_s |-> 100,
     drain_rate_s_per_s |-> 300]
BufferSmall ==
    [max_level_s |-> 300, initial_level_s |-> 100, rebuffer_threshold_s |-> 100,
     drain_rate_s_per_s |-> 100]

\* The simulations constructed: duration, step size, the kwargs of the four
\* components (a seed of its own where given) and the master seed.
SimBase ==
    [duration_s |-> 3, dt |-> 1,
     network_kwargs |-> NetDefaults, network_seed |-> NotGiven,
     buffer_kwargs |-> BufferSmall,
     encoder_kwargs |-> EncDefaults, encoder_seed |-> NotGiven,
     quality_kwargs |-> QualityDefaults]
SimConfigs ==
    { SimBase,
      [SimBase EXCEPT !.buffer_kwargs = BufferFast, !.duration_s = 5, !.dt = 2],
      [SimBase EXCEPT !.duration_s = 0],
      [SimBase EXCEPT
         !.network_kwargs = [NetDefaults EXCEPT !.base_bandwidth_mbps = 300,
                                                !.oscillation_amplitude = 60,
                                                !.congestion_probability = 50,
                                                !.congestion_severity = 18,
                                                !.noise_sigma = 30],
         !.encoder_kwargs = [EncDefaults EXCEPT !.upgrade_hysteresis = 1]],
      [SimBase EXCEPT
         !.duration_s = 4, !.dt = 2,
         !.network_kwargs = [NetDefaults EXCEPT !.base_bandwidth_mbps = 20000,
                                                !.oscillation_amplitude = 5,
                                                !.congestion_probability = 0,
                                                !.noise_sigma = 2],
         !.encoder_kwargs = [EncDefaults EXCEPT !.upgrade_hysteresis = 1]],
      [SimBase EXCEPT
         !.network_kwargs = [NetDefaults EXCEPT !.base_bandwidth_mbps = 20000,
                                                !.oscillation_amplitude = 5,
                                                !.congestion_probability = 0,
                                                !.noise_sigma = 2],
         !.encoder_kwargs = [EncDefaults EXCEPT !.upgrade_hysteresis = 1],
         !.encoder_seed = 4] }
SimSeeds == {None, 3, 4}

\* The tests' run of 60 steps, a run of the default buffer on a network that
\* carries the lowest level only now and then, and the configurations and
\* seeds constructed: each short configuration with each seed, the two long
\* ones with one seed.
SimLong == [SimBase EXCEPT !.buffer_kwargs = BufferDefaults, !.duration_s = 60]
SimSetups ==
    (SimConfigs \X SimSeeds)
    \cup { <<SimLong, 3>>,
           <<[SimLong EXCEPT
                !.duration_s = 12,
                !.network_kwargs = [NetDefaults EXCEPT
                                      !.base_bandwidth_mbps = 400,
                                      !.oscillation_amplitude = 60,
                                      !.noise_sigma = 30]], 3>> }

\* if "seed" not in kw: kw["seed"] = seed.
ComponentSeed(kwargs_seed, seed) ==
    IF kwargs_seed = NotGiven THEN seed ELSE kwargs_seed

\* TwitchStreamSimulation.__init__; entropy is what the operating system
\* hands each unseeded Generator.
TwitchStreamSimulation_init(cfg, seed, entropy) ==
    LET network == NetworkCondition_init(cfg.network_kwargs,
                       ComponentSeed(cfg.network_seed, seed), entropy.network)
        buffer_obj == StreamBuffer_init(cfg.buffer_kwargs.max_level_s,
                       cfg.buffer_kwargs.initial_level_s,
                       cfg.buffer_kwargs.rebuffer_threshold_s,
                       cfg.buffer_kwargs.drain_rate_s_per_s, cfg.dt)
        encoder_obj == StreamEncoder_init(
                       [cfg.encoder_kwargs EXCEPT
                          !.seed = ComponentSeed(cfg.encoder_seed, seed)],
                       entropy.encoder)
        metrics_obj == QualityMetrics_init(cfg.quality_kwargs)
    IN  IF ~Constructed(buffer_obj) THEN buffer_obj
        ELSE IF ~Constructed(metrics_obj) THEN metrics_obj
        ELSE [duration_s |-> cfg.duration_s,
              dt |-> cfg.dt,
              network |-> network,
              buffer |-> buffer_obj,
              encoder |-> encoder_obj,
              metrics |-> metrics_obj]

\* A plausible slip: the encoder is told the buffer is playing, whatever it does.
PrevBufferState_playing(buffer_obj) ==
    [is_stalled |-> FALSE, stall_event |-> FALSE,
     level_s |-> buffer_obj.level_s, resume_event |-> FALSE,
     overflow |-> FALSE]

\* prev_buffer_state: the buffer's flags and level before its step of this pass.
PrevBufferState(buffer_obj) ==
    [is_stalled |-> buffer_obj.is_stalled, stall_event |-> FALSE,
     level_s |-> buffer_obj.level_s, resume_event |-> FALSE,
     overflow |-> FALSE]

\* The three component steps of one pass of the loop of run(), each taken
\* once and in the order of the code: the network's step, then the encoder's
\* on the network's bandwidth and the buffer's state before the pass, then
\* the buffer's on the encoder's inflow rate.
ComponentSteps(self) ==
    UNION { UNION { { [net |-> net, enc |-> enc, buf |-> buf] :
                        buf \in {StreamBuffer_step(
                                    self.buffer,
                                    enc.out.inflow_rate_s_per_s)} } :
                    enc \in {StreamEncoder_step(
                                self.encoder, net.out.bandwidth_mbps,
                                PrevBufferState(self.buffer))} } :
            net \in {NetworkCondition_step(self.network)} }

\* One pass of the loop of run(): the simulation after it and the timeline entry.
RunStep(self, step) ==
    CHOOSE pass \in
        { [self |-> [self EXCEPT
                       !.network = s.net.self,
                       !.encoder = s.enc.self,
                       !.buffer = s.buf.self,
                       !.metrics = QualityMetrics_record(@, s.buf.out,
                                                         s.enc.out)],
           entry |-> [t |-> step * self.dt,
                      bandwidth_mbps |-> s.net.out.bandwidth_mbps,
                      latency_ms |-> s.net.out.latency_ms,
                      packet_loss |-> s.net.out.packet_loss,
                      congestion_level |-> s.net.out.congestion_level,
                      buffer_level_s |-> s.buf.out.level_s,
                      is_stalled |-> s.buf.out.is_stalled,
                      stall_event |-> s.buf.out.stall_event,
                      quality_name |-> s.enc.out.quality_name,
                      av_sync_drift_ms |-> s.enc.out.av_sync_drift_ms,
                      inflow_rate_s_per_s |-> s.enc.out.inflow_rate_s_per_s,
                      dropped_frames |-> s.enc.out.dropped_frames]] :
          s \in ComponentSteps(self) } : TRUE

\* The loop of run() from pass `step` on: for step in range(int(duration_s / dt)).
\* A plausible slip: the pass at t = duration_s is run as well.
TotalSteps_inclusive(self) == self.duration_s \div self.dt + 1

\* int(self.duration_s / self.dt).
TotalSteps(self) == self.duration_s \div self.dt

RECURSIVE RunLoop(_, _, _)
RunLoop(self, step, timeline) ==
    IF step >= TotalSteps(self)
    THEN [self |-> self, timeline |-> timeline]
    ELSE LET pass == RunStep(self, step)
         IN  RunLoop(pass.self, step + 1, Append(timeline, pass.entry))

\* The four resets that open run().
RunResets(self) ==
    [self EXCEPT !.network = NetworkCondition_reset(@, None),
                 !.buffer = StreamBuffer_reset(@, None),
                 !.encoder = StreamEncoder_reset(@),
                 !.metrics = QualityMetrics_reset(@)]

\* TwitchStreamSimulation.run: the simulation after the call and the report.
TwitchStreamSimulation_run(self) ==
    LET done == RunLoop(RunResets(self), 0, <<>>)
    IN  [self |-> done.self,
         report |-> [timeline |-> done.timeline]
                      @@ QualityMetrics_compute(done.self.metrics)]

----------------------------------------------------------------------------
(* The objects under test. Each specification below exercises one class;   *)
(* the objects of the other classes stay as constructed with the defaults. *)

Instances == {1, 2}

\* No generator is under test.
NetworkIdle ==
    /\ nets = [i \in Instances |-> NetworkCondition_init(NetDefaults, 0, 0)]
    /\ netHist = [i \in Instances |-> [began |-> "init", seed |-> 0, trace |-> <<>>]]

\* No simulation is under test.
SimulationIdle ==
    sims = [i \in Instances |->
              [obj |-> TwitchStreamSimulation_init(SimBase, 0,
                          [network |-> 0, encoder |-> 0]),
               seed |-> 0, reports |-> <<>>]]

\* No constructor has been called.
ConstructIdle == built = NoBuilt

\* No pass of run()'s loop is followed.
LoopIdle == loop = NoLoop

\* No aggregator is under test.
MetricsIdle ==
    /\ metrics = QualityMetrics_init(QualityDefaults)
    /\ metCall = NoMetCall
    /\ metOut = EmptyDict

\* No encoder is under test.
EncoderIdle ==
    /\ encoder = StreamEncoder_init(EncDefaults, 0)
    /\ encCall = NoEncCall
    /\ encOut = NoEncOut

\* No buffer is under test.
BufferIdle ==
    /\ buffer = StreamBuffer_init(300, 100, 100, 100, 1)
    /\ bufCall = NoCall
    /\ bufOut = NoOut
    /\ scen = NoScen

----------------------------------------------------------------------------
(* Calls on a StreamBuffer.                                                 *)

\* One call of buffer.step(r) by the caller.
CallBufferStep(r) ==
    LET res == StreamBuffer_step(buffer, r)
    IN  /\ buffer' = res.self
        /\ bufOut' = res.out
        /\ bufCall' = [op |-> "step", inflow_rate_s_per_s |-> r,
                       was_stalled |-> buffer.is_stalled,
                       resumes |-> bufCall.resumes
                                     + (IF res.out.resume_event THEN 1 ELSE 0),
                       last_event |-> IF res.out.stall_event THEN "stall"
                                      ELSE IF res.out.resume_event THEN "resume"
                                      ELSE bufCall.last_event]

\* One call of buffer.reset(l), l = None for reset().
CallBufferReset(l) ==
    /\ buffer' = StreamBuffer_reset(buffer, l)
    /\ bufCall' = [op |-> "reset", inflow_rate_s_per_s |-> 0,
                   was_stalled |-> buffer.is_stalled,
                   resumes |-> 0, last_event |-> "none"]
    /\ bufOut' = bufOut

BufferStep ==
    /\ buffer.total_stall_time_s < MaxStallTime
    /\ \E r \in Inflows : CallBufferStep(r)
    /\ UNCHANGED <<scen, netVars, encVars, sims, metVars, built, loop>>

BufferReset ==
    /\ \E l \in {None} \cup {x \in BufLevels : x <= buffer.max_level_s} :
          CallBufferReset(l)
    /\ UNCHANGED <<scen, netVars, encVars, sims, metVars, built, loop>>

BufferInit ==
    /\ buffer \in BufferObjects
    /\ bufCall = NoCall
    /\ bufOut = NoOut
    /\ scen = NoScen
    /\ NetworkIdle
    /\ EncoderIdle
    /\ SimulationIdle
    /\ MetricsIdle
    /\ ConstructIdle
    /\ LoopIdle

BufferNext == BufferStep \/ BufferReset

\* Any sequence of step(inflow >= 0) and reset calls on a constructed buffer.
SpecBuffer == BufferInit /\ [][BufferNext]_vars

----------------------------------------------------------------------------
(* The drain/refill scenario of tests/test_buffer.py: a playing buffer is  *)
(* fed nothing until it stalls, a stalled one is fed a constant positive   *)
(* rate until it resumes, and is then reset.                               *)

\* Steps taken so far in the present phase (playing or stalled).
PhaseSteps ==
    IF bufCall.op = "step" /\ bufCall.was_stalled = buffer.is_stalled
    THEN Min(scen.steps + 1, MaxPhaseSteps)
    ELSE 1

JustResumed == bufCall.op = "step" /\ bufOut.resume_event

DrainStep ==
    /\ ~buffer.is_stalled
    /\ ~JustResumed
    /\ CallBufferStep(0)
    /\ scen' = [scen EXCEPT !.steps = PhaseSteps]
    /\ UNCHANGED <<netVars, encVars, sims, metVars, built, loop>>

FeedStep ==
    /\ buffer.is_stalled
    /\ CallBufferStep(scen.feed)
    /\ scen' = [scen EXCEPT !.steps = PhaseSteps]
    /\ UNCHANGED <<netVars, encVars, sims, metVars, built, loop>>

ResetAfterResume ==
    /\ JustResumed
    /\ CallBufferReset(None)
    /\ scen' = [scen EXCEPT !.steps = 0]
    /\ UNCHANGED <<netVars, encVars, sims, metVars, built, loop>>

ScenarioInit ==
    /\ buffer \in BufferObjects
    /\ bufCall = NoCall
    /\ bufOut = NoOut
    /\ scen \in [feed : Inflows \ {0}, steps : {0}]
    /\ NetworkIdle
    /\ EncoderIdle
    /\ SimulationIdle
    /\ MetricsIdle
    /\ ConstructIdle
    /\ LoopIdle

ScenarioNext == DrainStep \/ FeedStep \/ ResetAfterResume

\* The caller's loop keeps calling: each phase's call is taken when it is due.
LiveBuffer ==
    /\ ScenarioInit
    /\ [][ScenarioNext]_vars
    /\ WF_vars(DrainStep) /\ WF_vars(FeedStep) /\ WF_vars(ResetAfterResume)

----------------------------------------------------------------------------
(* Calls on NetworkCondition objects.                                       *)

NetworkStep(i) ==
    /\ Len(netHist[i].trace) < MaxNetSteps
    /\ LET res == NetworkCondition_step(nets[i])
       IN  /\ nets' = [nets EXCEPT ![i] = res.self]
           /\ netHist' = [netHist EXCEPT ![i].trace = Append(@, res.out)]
    /\ UNCHANGED <<bufVars, encVars, sims, metVars, built, loop>>

NetworkReset(i) ==
    /\ \E seed \in NetSeeds :
          /\ nets' = [nets EXCEPT ![i] = NetworkCondition_reset(@, seed)]
          /\ netHist' = [netHist EXCEPT
                           ![i] = [began |-> "reset", seed |-> seed, trace |-> <<>>]]
    /\ UNCHANGED <<bufVars, encVars, sims, metVars, built, loop>>

\* Two generators constructed with the same configuration and seed.
NetworkInit ==
    /\ \E cfg \in NetConfigs, seed \in NetSeeds :
          /\ \E e \in [Instances -> Entropy] :
                nets = [i \in Instances |-> NetworkCondition_init(cfg, seed, e[i])]
          /\ netHist = [i \in Instances |->
                          [began |-> "init", seed |-> seed, trace |-> <<>>]]
    /\ BufferIdle
    /\ EncoderIdle
    /\ SimulationIdle
    /\ MetricsIdle
    /\ ConstructIdle
    /\ LoopIdle

NetworkNext == \E i \in Instances : NetworkStep(i) \/ NetworkReset(i)

\* Any sequence of step and reset calls on two generators constructed alike.
SpecNetwork == NetworkInit /\ [][NetworkNext]_vars

----------------------------------------------------------------------------
(* The congestion level of one generator, followed step by step.           *)

\* Configurations whose severity and recovery rate differ: the defaults, the
\* certain onset of tests/test_network.py, the poor network of
\* tests/test_simulation.py, and two with a recovery rate of 0.2.
CongestionConfigs ==
    { NetDefaults,
      [NetDefaults EXCEPT !.congestion_probability = 100],
      [NetDefaults EXCEPT !.congestion_probability = 15,
                          !.congestion_severity = 18],
      [NetDefaults EXCEPT !.congestion_severity = 16,
                          !.congestion_recovery_rate = 4],
      [NetDefaults EXCEPT !.congestion_probability = 10,
                          !.congestion_severity = 20,
                          !.congestion_recovery_rate = 4] }
CongestionSeeds == 0..7

\* The generator followed.
Followed == 1

\* Whether the step about to be taken draws an onset.
OnsetDue(self) ==
    DrawOnset(Advance(Advance(self.rng)), self.cfg.congestion_probability)

\* The congestion level as held: decimal value and rounding excess.
Level(self) == <<self.congestion_level, self.congestion_rounding>>

CongestionStep ==
    /\ Len(netHist[Followed].trace) < MaxCongestionSteps
    /\ LET res == NetworkCondition_step(nets[Followed])
       IN  /\ nets' = [nets EXCEPT ![Followed] = res.self]
           /\ netHist' = [netHist EXCEPT
                 ![Followed].trace = Append(@, res.out),
                 ![Followed].levels = Append(@, Level(res.self)),
                 ![Followed].onsets = Append(@, OnsetDue(nets[Followed]))]
    /\ UNCHANGED <<bufVars, encVars, sims, metVars, built, loop>>

CongestionReset ==
    /\ Len(netHist[Followed].trace) >= 1
    /\ LET self == NetworkCondition_reset(nets[Followed], None)
       IN  /\ nets' = [nets EXCEPT ![Followed] = self]
           /\ netHist' = [netHist EXCEPT
                 ![Followed] = [began |-> "reset", seed |-> None,
                                trace |-> <<>>, levels |-> <<Level(self)>>,
                                onsets |-> <<>>]]
    /\ UNCHANGED <<bufVars, encVars, sims, metVars, built, loop>>

CongestionInit ==
    /\ \E cfg \in CongestionConfigs, seed \in CongestionSeeds :
          /\ nets = [i \in Instances |-> NetworkCondition_init(cfg, seed, 0)]
          /\ netHist = [i \in Instances |->
                          [began |-> "init", seed |-> seed, trace |-> <<>>,
                           levels |-> <<Level(nets[i])>>, onsets |-> <<>>]]
    /\ BufferIdle
    /\ EncoderIdle
    /\ SimulationIdle
    /\ MetricsIdle
    /\ ConstructIdle
    /\ LoopIdle

CongestionNext == CongestionStep \/ CongestionReset

\* Any sequence of step() and reset() calls on one seeded generator.
SpecCongestion == CongestionInit /\ [][CongestionNext]_vars

----------------------------------------------------------------------------
(* Calls on a StreamEncoder.                                                *)

\* The buffer_state dict of tests/test_encoder.py (_dummy_buf).
dummy_buf(is_stalled) ==
    [is_stalled |-> is_stalled, stall_event |-> FALSE, level_s |-> 500,
     resume_event |-> FALSE, overflow |-> FALSE]

\* The length of the run of latest steps, this one included, whose target
\* lay above the index in use, none but the latest having changed the index.
EligibleRun(target_index) ==
    IF target_index > encoder.quality_index
    THEN (IF encoder.quality_index # encCall.previous_index THEN 0
          ELSE encCall.eligible) + 1
    ELSE 0

\* The length, counted up to the hysteresis, of the run of latest steps
\* whose bandwidth satisfied `high`.
RunLength(run, high) ==
    IF high THEN Min(run + 1, encoder.upgrade_hysteresis) ELSE 0

EncoderStep ==
    /\ encCall.steps < MaxEncSteps
    /\ \E bw \in BwInputs, is_stalled \in BOOLEAN :
          LET res == StreamEncoder_step(encoder, bw, dummy_buf(is_stalled))
              eff == EffectiveBandwidth(encoder, bw)
          IN  /\ encoder' = res.self
              /\ encOut' = res.out
              /\ encCall' =
                   [op |-> "step", available_bandwidth_mbps |-> bw,
                    is_stalled |-> is_stalled,
                    previous_index |-> encoder.quality_index,
                    previous_count |-> encoder.consecutive_upgrade_steps,
                    previous_drift |-> encoder.av_sync_drift_ms,
                    follows_playing |->
                        /\ encCall.op = "step"
                        /\ ~encCall.is_stalled
                        /\ encCall.available_bandwidth_mbps = bw,
                    high_raw |-> RunLength(encCall.high_raw,
                                   bw > Ladder(TopIndex).min_bandwidth_mbps),
                    high_eff |-> RunLength(encCall.high_eff,
                                   eff >= Ladder(TopIndex).min_bandwidth_mbps * 100),
                    eligible |-> EligibleRun(select_quality_index(encoder, eff)),
                    steps |-> encCall.steps + 1]
    /\ UNCHANGED <<bufVars, netVars, sims, metVars, built, loop>>

EncoderReset ==
    /\ encoder' = StreamEncoder_reset(encoder)
    /\ encCall' = [NoEncCall EXCEPT !.op = "reset",
                                    !.previous_index = encoder.quality_index,
                                    !.previous_count = encoder.consecutive_upgrade_steps,
                                    !.steps = encCall.steps]
    /\ encOut' = encOut
    /\ UNCHANGED <<bufVars, netVars, sims, metVars, built, loop>>

EncoderInit ==
    /\ \E cfg \in EncConfigs, e \in Entropy : encoder = StreamEncoder_init(cfg, e)
    /\ encCall = NoEncCall
    /\ encOut = NoEncOut
    /\ BufferIdle
    /\ NetworkIdle
    /\ SimulationIdle
    /\ MetricsIdle
    /\ ConstructIdle
    /\ LoopIdle

EncoderNext == EncoderStep \/ EncoderReset

\* Any sequence of step and reset calls on a constructed encoder.
SpecEncoder == EncoderInit /\ [][EncoderNext]_vars

----------------------------------------------------------------------------
(* Runs of two simulations, and steps of two generators, constructed alike. *)

SimulationRun(i) ==
    /\ Len(sims[i].reports) < MaxRuns
    /\ LET res == TwitchStreamSimulation_run(sims[i].obj)
       IN  sims' = [sims EXCEPT ![i].obj = res.self,
                                ![i].reports = Append(@, res.report)]
    /\ UNCHANGED <<bufVars, netVars, encVars, metVars, built, loop>>

GeneratorStep(i) ==
    /\ Len(netHist[i].trace) < MaxGeneratorSteps
    /\ LET res == NetworkCondition_step(nets[i])
       IN  /\ nets' = [nets EXCEPT ![i] = res.self]
           /\ netHist' = [netHist EXCEPT ![i].trace = Append(@, res.out)]
    /\ UNCHANGED <<bufVars, encVars, sims, metVars, built, loop>>

\* Two simulations of one configuration and seed, and two generators of the
\* simulation's network configuration and seed; every Generator without a
\* seed starts from entropy of its own.
SimulationInit ==
    /\ \E setup \in SimSetups :
        LET cfg == setup[1]
            seed == setup[2]
        IN
          /\ \E e \in [Instances -> [network : Entropy, encoder : Entropy]] :
                sims = [i \in Instances |->
                          [obj |-> TwitchStreamSimulation_init(cfg, seed, e[i]),
                           seed |-> seed, reports |-> <<>>]]
          /\ \E e \in [Instances -> Entropy] :
                nets = [i \in Instances |->
                          NetworkCondition_init(cfg.network_kwargs, seed, e[i])]
          /\ netHist = [i \in Instances |->
                          [began |-> "init", seed |-> seed, trace |-> <<>>]]
    /\ BufferIdle
    /\ EncoderIdle
    /\ MetricsIdle
    /\ ConstructIdle
    /\ LoopIdle

SimulationNext == \E i \in Instances : SimulationRun(i) \/ GeneratorStep(i)

SpecSim == SimulationInit /\ [][SimulationNext]_vars

----------------------------------------------------------------------------
(* One run() followed call by call: the four calls of each pass of its     *)
(* loop on the four components, then compute().                            *)

\* 1. net = self.network.step(), and the prev_buffer_state dict is built.
ObserveNetwork ==
    /\ loop.pc = "network"
    /\ loop.step < loop.total
    /\ LET res == NetworkCondition_step(nets[Followed])
       IN  /\ nets' = [nets EXCEPT ![Followed] = res.self]
           /\ loop' = [loop EXCEPT !.pc = "encoder", !.net = res.out,
                                   !.prev_buffer_state = PrevBufferState(buffer)]
    /\ UNCHANGED <<netHist, bufVars, encVars, sims, metVars, built>>

\* 2. enc = self.encoder.step(net["bandwidth_mbps"], prev_buffer_state).
EncoderSelects ==
    /\ loop.pc = "encoder"
    /\ LET res == StreamEncoder_step(encoder, loop.net.bandwidth_mbps,
                                     loop.prev_buffer_state)
       IN  /\ encoder' = res.self
           /\ encOut' = res.out
           /\ encCall' = [NoEncCall EXCEPT
                            !.op = "step",
                            !.available_bandwidth_mbps = loop.net.bandwidth_mbps,
                            !.is_stalled = loop.prev_buffer_state.is_stalled,
                            !.previous_index = encoder.quality_index,
                            !.previous_count = encoder.consecutive_upgrade_steps,
                            !.previous_drift = encoder.av_sync_drift_ms,
                            !.steps = loop.step + 1]
    /\ loop' = [loop EXCEPT !.pc = "buffer"]
    /\ UNCHANGED <<bufVars, netVars, sims, metVars, built>>

\* 3. buf = self.buffer.step(enc["inflow_rate_s_per_s"]).
AdvanceBuffer ==
    /\ loop.pc = "buffer"
    /\ CallBufferStep(encOut.inflow_rate_s_per_s)
    /\ loop' = [loop EXCEPT !.pc = "record"]
    /\ UNCHANGED <<scen, netVars, encVars, sims, metVars, built>>

\* 4. self.metrics.record(buf, enc), and the loop goes round.
RecordMetrics ==
    /\ loop.pc = "record"
    /\ metrics' = QualityMetrics_record(metrics, bufOut, encOut)
    /\ metCall' = [metCall EXCEPT !.op = "record"]
    /\ loop' = [loop EXCEPT !.pc = "network", !.step = @ + 1]
    /\ UNCHANGED <<bufVars, netVars, encVars, sims, metOut, built>>

\* report = self.metrics.compute() after the loop, and further calls of
\* compute() by the caller.
ComputeReport ==
    /\ loop.pc = "network"
    /\ loop.step = loop.total
    /\ loop.computes < MaxComputes
    /\ metOut' = QualityMetrics_compute(metrics)
    /\ metCall' = [metCall EXCEPT !.op = "compute"]
    /\ loop' = [loop EXCEPT !.computes = @ + 1]
    /\ UNCHANGED <<bufVars, netVars, encVars, sims, metrics, built>>

\* A simulation constructed and the four resets of run() done.
PipelineInit ==
    /\ \E setup \in SimSetups :
          \E e \in [network : Entropy, encoder : Entropy] :
             LET obj == RunResets(TwitchStreamSimulation_init(setup[1], setup[2], e))
             IN  /\ nets = [i \in Instances |-> obj.network]
                 /\ buffer = obj.buffer
                 /\ encoder = obj.encoder
                 /\ metrics = obj.metrics
                 /\ loop = [NoLoop EXCEPT !.pc = "network",
                                          !.total = TotalSteps(obj)]
    /\ netHist = [i \in Instances |-> [began |-> "reset", seed |-> None, trace |-> <<>>]]
    /\ bufCall = NoCall
    /\ bufOut = NoOut
    /\ scen = NoScen
    /\ encCall = NoEncCall
    /\ encOut = NoEncOut
    /\ metCall = NoMetCall
    /\ metOut = EmptyDict
    /\ SimulationIdle
    /\ ConstructIdle

PipelineNext ==
    \/ ObserveNetwork
    \/ EncoderSelects
    \/ AdvanceBuffer
    \/ RecordMetrics
    \/ ComputeReport

SpecPipeline == PipelineInit /\ [][PipelineNext]_vars

----------------------------------------------------------------------------
(* Runs of a stable-network and a poor-network simulation, same seed.       *)

\* The tests' stable and poor network_kwargs (a congestion probability of
\* 0.001 is taken as none).
NetStable ==
    [NetDefaults EXCEPT !.base_bandwidth_mbps = 20000, !.oscillation_amplitude = 5,
                        !.congestion_probability = 0, !.noise_sigma = 2]
NetPoor ==
    [NetDefaults EXCEPT !.base_bandwidth_mbps = 2000, !.oscillation_amplitude = 60,
                        !.congestion_probability = 15, !.congestion_severity = 18,
                        !.noise_sigma = 30]

\* The seeds and durations (s) of the compared runs.
CompareSeeds == 0..7
CompareDurations == {1, 2, 3, 6}

\* Simulation 1 has the stable network, simulation 2 the poor one.
Stable == 1
Poor == 2

CompareInit ==
    /\ \E seed \in CompareSeeds, duration_s \in CompareDurations :
          sims = [i \in Instances |->
                    [obj |-> TwitchStreamSimulation_init(
                                [SimBase EXCEPT
                                   !.duration_s = duration_s,
                                   !.buffer_kwargs = BufferDefaults,
                                   !.network_kwargs =
                                       IF i = Stable THEN NetStable ELSE NetPoor],
                                seed, [network |-> 0, encoder |-> 0]),
                     seed |-> seed, reports |-> <<>>]]
    /\ BufferIdle
    /\ NetworkIdle
    /\ EncoderIdle
    /\ MetricsIdle
    /\ ConstructIdle
    /\ LoopIdle

CompareNext == \E i \in Instances : SimulationRun(i)

SpecCompare == CompareInit /\ [][CompareNext]_vars

----------------------------------------------------------------------------
(* Calls on one aggregator.                                                 *)

MetricsRecord ==
    /\ Constructed(metrics)
    /\ metCall.loops < MaxRecordLoops
    /\ \E n \in LoopLengths, snap \in Snapshots :
          metrics' = RecordLoop(metrics, n, snap.buf, snap.enc)
    /\ metCall' = [metCall EXCEPT !.op = "record", !.loops = @ + 1]
    /\ UNCHANGED <<bufVars, netVars, encVars, sims, metOut, built, loop>>

MetricsCompute ==
    /\ Constructed(metrics)
    /\ metOut' = QualityMetrics_compute(metrics)
    /\ metCall' = [metCall EXCEPT !.op = "compute"]
    /\ UNCHANGED <<bufVars, netVars, encVars, sims, metrics, built, loop>>

MetricsReset ==
    /\ Constructed(metrics)
    /\ metrics' = QualityMetrics_reset(metrics)
    /\ metCall' = [metCall EXCEPT !.op = "reset", !.cleared = Len(metrics.steps)]
    /\ UNCHANGED <<bufVars, netVars, encVars, sims, metOut, built, loop>>

MetricsInit ==
    /\ \E cfg \in MetricsConfigs :
          /\ metrics = QualityMetrics_init(cfg)
          /\ metCall = [NoMetCall EXCEPT !.cfg = cfg]
    /\ metOut = EmptyDict
    /\ BufferIdle
    /\ NetworkIdle
    /\ EncoderIdle
    /\ SimulationIdle
    /\ ConstructIdle
    /\ LoopIdle

MetricsNext == MetricsRecord \/ MetricsCompute \/ MetricsReset

\* Any sequence of record loops, compute and reset calls on an aggregator.
SpecMetrics == MetricsInit /\ [][MetricsNext]_vars

----------------------------------------------------------------------------
(* Constructor calls.                                                       *)

\* buffer_kwargs whose threshold exceeds the capacity, and whose threshold
\* equals it.
BufferOver == [BufferSmall EXCEPT !.rebuffer_threshold_s = 400]
BufferBrim == [BufferSmall EXCEPT !.rebuffer_threshold_s = 300]

\* The keyword arguments a simulation is constructed with here.
ConstructKwargs ==
    { [SimBase EXCEPT !.buffer_kwargs = b, !.quality_kwargs = q] :
        b \in {BufferSmall, BufferDefaults, BufferOver, BufferBrim},
        q \in MetricsConfigs }

ConstructBuffer ==
    /\ \E max_level_s \in BufMaxLevels, initial_level_s \in {0, 200},
          rebuffer_threshold_s \in BufThresholds \cup {201, 301},
          drain_rate_s_per_s \in BufDrainRates, dt \in BufDts :
          built' = [class |-> "StreamBuffer",
                    args |-> [max_level_s |-> max_level_s,
                              rebuffer_threshold_s |-> rebuffer_threshold_s],
                    result |-> StreamBuffer_init(max_level_s, initial_level_s,
                                  rebuffer_threshold_s, drain_rate_s_per_s, dt)]
    /\ UNCHANGED <<bufVars, netVars, encVars, sims, metVars, loop>>

ConstructMetrics ==
    /\ \E cfg \in MetricsConfigs :
          built' = [class |-> "QualityMetrics",
                    args |-> cfg,
                    result |-> QualityMetrics_init(cfg)]
    /\ UNCHANGED <<bufVars, netVars, encVars, sims, metVars, loop>>

ConstructSimulation ==
    /\ \E cfg \in ConstructKwargs, seed \in SimSeeds, e \in Entropy :
          built' = [class |-> "TwitchStreamSimulation",
                    args |-> cfg,
                    result |-> TwitchStreamSimulation_init(cfg, seed,
                                  [network |-> e, encoder |-> e])]
    /\ UNCHANGED <<bufVars, netVars, encVars, sims, metVars, loop>>

ConstructInit ==
    /\ ConstructIdle
    /\ LoopIdle
    /\ BufferIdle
    /\ NetworkIdle
    /\ EncoderIdle
    /\ SimulationIdle
    /\ MetricsIdle

ConstructNext == ConstructBuffer \/ ConstructMetrics \/ ConstructSimulation

\* Any sequence of constructor calls.
SpecConstruct == ConstructInit /\ [][ConstructNext]_vars

----------------------------------------------------------------------------
(* Claims about the buffer.                                                 *)

\* C1: after any sequence of step(inflow >= 0) and reset calls on a validly
\* constructed buffer the level is within [0, max_level_s], stalled or not.
C1_LevelWithinBounds ==
    /\ 0 <= buffer.level_s
    /\ buffer.level_s <= buffer.max_level_s
    /\ bufCall.op = "step" => bufOut.level_s = buffer.level_s

\* C1 witness: a stalled step whose refill would pass the capacity was capped.
C1_Witness ==
    /\ bufCall.op = "step" /\ bufCall.was_stalled
    /\ bufCall.inflow_rate_s_per_s * buffer.dt > buffer.max_level_s
    /\ buffer.level_s = buffer.max_level_s
    /\ buffer.stall_count >= 1

\* C5: a playing buffer fed inflow 0 on every step (drain rate > 0) reaches
\* level exactly 0 after finitely many steps; the step that reaches 0 returns
\* is_stalled and stall_event; the level is never negative.
C5_DrainReachesZero ==
    /\ [](buffer.level_s >= 0)
    /\ []((bufCall.op = "step" /\ ~bufCall.was_stalled
           /\ bufCall.inflow_rate_s_per_s = 0 /\ bufOut.level_s = 0)
          => (bufOut.is_stalled /\ bufOut.stall_event /\ buffer.is_stalled))
    /\ ((~buffer.is_stalled /\ ~JustResumed)
         ~> (buffer.level_s = 0 /\ buffer.is_stalled /\ bufOut.stall_event))

\* C5 witness: a buffer that started full stalled at 0 after three empty steps.
C5_Witness ==
    /\ bufCall.op = "step" /\ bufCall.inflow_rate_s_per_s = 0
    /\ bufOut.stall_event /\ bufOut.is_stalled /\ buffer.level_s = 0
    /\ scen.steps >= 3
    /\ buffer.stall_count = 1

\* C6: a stalled buffer fed a constant rate > 0 flags resume_event after
\* finitely many steps, exactly on the first step whose resulting level is
\* >= rebuffer_threshold_s; from then is_stalled is false; no earlier step
\* flags it.
C6_RefillResumes ==
    /\ []((bufCall.op = "step" /\ bufCall.was_stalled)
          => /\ bufOut.resume_event
                  <=> (bufOut.level_s >= buffer.rebuffer_threshold_s)
             /\ bufOut.is_stalled <=> ~bufOut.resume_event
             /\ buffer.is_stalled = bufOut.is_stalled)
    /\ (buffer.is_stalled
         ~> (bufCall.op = "step" /\ bufCall.was_stalled /\ bufOut.resume_event
             /\ ~buffer.is_stalled))

\* C6 witness: the resume came on the third refill step, not before.
C6_Witness ==
    /\ bufCall.op = "step" /\ bufCall.was_stalled
    /\ bufOut.resume_event /\ ~buffer.is_stalled
    /\ scen.steps = 3
    /\ buffer.level_s >= buffer.rebuffer_threshold_s

\* C7: a playing step whose projected level level + (inflow - drain)*dt is
\* >= max_level_s sets the level to max_level_s, returns overflow, stays
\* playing, flags no stall or resume event and leaves stall_count and
\* total_stall_time_s unchanged.
C7_OverflowClamps ==
    [][(bufCall'.op = "step" /\ ~buffer.is_stalled
        /\ buffer.level_s
             + (bufCall'.inflow_rate_s_per_s - buffer.drain_rate_s_per_s)
               * buffer.dt >= buffer.max_level_s)
       => /\ buffer'.level_s = buffer.max_level_s
          /\ bufOut'.level_s = buffer.max_level_s
          /\ bufOut'.overflow
          /\ ~buffer'.is_stalled /\ ~bufOut'.is_stalled
          /\ ~bufOut'.stall_event /\ ~bufOut'.resume_event
          /\ buffer'.stall_count = buffer.stall_count
          /\ buffer'.total_stall_time_s = buffer.total_stall_time_s]_vars

\* C7 witness: an overflow step on a buffer that had stalled before.
C7_Witness ==
    /\ bufCall.op = "step" /\ ~bufCall.was_stalled
    /\ bufOut.overflow /\ buffer.level_s = buffer.max_level_s
    /\ buffer.stall_count >= 1 /\ buffer.total_stall_time_s >= 2

\* C21: the overflow flag of step() reports whether the buffer hit its
\* ceiling this step: for every step, stalled or not, overflow is true if and
\* only if the level resulting from the step equals max_level_s.
C21_OverflowIffCeiling ==
    bufCall.op = "step" =>
        (bufOut.overflow <=> bufOut.level_s = buffer.max_level_s)

\* C22 as stated: for every accepted configuration, a step leaves the
\* stalled state only with level >= rebuffer_threshold_s, and a step that
\* flags resume_event is never immediately followed by a step that flags
\* stall_event.
C22_AsStated ==
    [][bufCall'.op = "step" =>
         /\ (buffer.is_stalled /\ ~buffer'.is_stalled)
               => buffer'.level_s >= buffer.rebuffer_threshold_s
         /\ (bufCall.op = "step" /\ bufOut.resume_event)
               => ~bufOut'.stall_event]_vars

\* C22 amended: a step leaves the stalled state only with level >=
\* rebuffer_threshold_s and flags resume_event exactly then; the step after a
\* step that flagged resume_event flags no stall_event provided
\* rebuffer_threshold_s > drain_rate_s_per_s * dt (inflow >= 0).
C22_NoFlappingAboveOneDrain ==
    [][bufCall'.op = "step" =>
         /\ (buffer.is_stalled /\ ~buffer'.is_stalled)
               => /\ buffer'.level_s >= buffer.rebuffer_threshold_s
                  /\ bufOut'.resume_event
         /\ (/\ bufCall.op = "step" /\ bufOut.resume_event
             /\ buffer.rebuffer_threshold_s
                  > buffer.drain_rate_s_per_s * buffer.dt)
               => /\ ~bufOut'.stall_event
                  /\ ~buffer'.is_stalled
                  /\ buffer'.stall_count = buffer.stall_count]_vars

\* C22 witness: the step after a resume was fed nothing and did not stall.
C22_Witness ==
    /\ bufCall.op = "step" /\ ~bufCall.was_stalled
    /\ bufCall.inflow_rate_s_per_s = 0
    /\ buffer.stall_count = 1
    /\ buffer.total_stall_time_s >= 2
    /\ buffer.rebuffer_threshold_s > buffer.drain_rate_s_per_s * buffer.dt
    /\ buffer.level_s
         = buffer.rebuffer_threshold_s - buffer.drain_rate_s_per_s * buffer.dt
    /\ ~buffer.is_stalled /\ ~bufOut.stall_event

\* C23: stall_count rises by exactly 1 on each step that flags stall_event
\* and is unchanged by every other step; total_stall_time_s rises by exactly
\* dt on every step that starts stalled and on every step on which a stall
\* begins, and is unchanged by every other step; only reset() lowers either,
\* to 0.
C23_StallAccounting ==
    [][/\ bufCall'.op = "step" =>
            /\ buffer'.stall_count
                 = buffer.stall_count + (IF bufOut'.stall_event THEN 1 ELSE 0)
            /\ buffer'.total_stall_time_s
                 = buffer.total_stall_time_s
                     + (IF buffer.is_stalled \/ bufOut'.stall_event
                        THEN buffer.dt ELSE 0)
            /\ bufOut'.stall_event <=> (~buffer.is_stalled /\ buffer'.is_stalled)
       /\ (\/ buffer'.stall_count < buffer.stall_count
           \/ buffer'.total_stall_time_s < buffer.total_stall_time_s)
            => /\ bufCall'.op = "reset"
               /\ buffer'.stall_count = 0
               /\ buffer'.total_stall_time_s = 0]_vars

\* C23 witness: a second stall began on a buffer whose first stall lasted
\* more than one step.
C23_Witness ==
    /\ bufCall.op = "step" /\ bufOut.stall_event
    /\ buffer.stall_count = 2
    /\ buffer.total_stall_time_s >= 4 * buffer.dt

----------------------------------------------------------------------------
(* Claims about the network generator.                                      *)

\* C2: with amplitude, onset probability, severity and recovery rate in
\* [0,1] and base packet loss at most 0.9, every step() output, after any
\* number of steps and resets, has congestion_level in [0,1], packet_loss in
\* [0,1], bandwidth_mbps >= 0.1 and latency_ms >= base_latency_ms.
C2_NetworkOutputsBounded ==
    \A i \in Instances :
        nets[i].cfg.base_packet_loss <= 72000 =>
            /\ nets[i].congestion_level \in 0..20
            /\ \A k \in 1..Len(netHist[i].trace) :
                  LET out == netHist[i].trace[k]
                  IN  /\ 0 <= out.congestion_level /\ out.congestion_level <= 20
                      /\ 0 <= out.packet_loss /\ out.packet_loss <= 80000
                      /\ out.bandwidth_mbps >= 100
                      /\ out.latency_ms >= nets[i].cfg.base_latency_ms * 400

\* C2 witness: after a reset, a sample at full congestion: packet loss
\* exactly 1, bandwidth on its floor, latency above the base.
C2_Witness ==
    \E i \in Instances :
        /\ nets[i].cfg.base_packet_loss <= 72000
        /\ netHist[i].began = "reset"
        /\ Len(netHist[i].trace) >= 2
        /\ LET out == netHist[i].trace[Len(netHist[i].trace)]
           IN  /\ out.congestion_level = 20
               /\ out.packet_loss = 80000
               /\ out.bandwidth_mbps = 100
               /\ out.latency_ms > nets[i].cfg.base_latency_ms * 400

\* C27: reset() without a reseed restores the construction-time state (step
\* counter 0, congestion level 0 and the phase derived from the configured
\* seed), so the outputs of step() after reset() equal those of a freshly
\* constructed generator with the same seed.
C27_ResetRestoresConstruction ==
    \A i, j \in Instances :
        (/\ nets[i].seed # None
         /\ netHist[i].began = "reset" /\ netHist[i].seed = None
         /\ netHist[j].began = "init")
        => /\ nets[i].step = Len(netHist[i].trace)
           /\ Len(netHist[i].trace) = 0 =>
                 /\ nets[i].congestion_level = 0
                 /\ nets[i].phase
                      = NetworkCondition_init(nets[i].cfg, nets[i].seed, 0).phase
           /\ \A k \in 1..Min(Len(netHist[i].trace), Len(netHist[j].trace)) :
                 netHist[i].trace[k] = netHist[j].trace[k]

\* The levels and onset flags of the generator followed, and its rates.
Levels == netHist[Followed].levels
Onsets == netHist[Followed].onsets
Severity == nets[Followed].cfg.congestion_severity
RecoveryRate == nets[Followed].cfg.congestion_recovery_rate

\* a <= b for two levels or rates held as <<decimal value, excess>>.
AtMost(a, b) == a[1] < b[1] \/ (a[1] = b[1] /\ a[2] <= b[2])

\* ceil(c / recovery_rate) for the level c: the least m with c <= m * rate.
CeilSteps(c) ==
    CHOOSE m \in 0..(2 * 20) :
        /\ AtMost(c, <<m * RecoveryRate, m * DoubleOf(RecoveryRate)>>)
        /\ \A n \in 0..(m - 1) :
              ~AtMost(c, <<n * RecoveryRate, n * DoubleOf(RecoveryRate)>>)

\* Steps j .. j + m - 1 were all taken, and none with an onset.
QuietRun(j, m) ==
    /\ j + m - 1 <= Len(Onsets)
    /\ \A i \in j..(j + m - 1) : ~Onsets[i]

\* Each step moved the decimal value of the level either up by the severity,
\* clamped to 1, or down by the recovery rate, clamped to 0; a step without
\* onset did not raise the level and kept it at 0 if it was 0.
StepsOnsetOrRecovery ==
    \A j \in 1..Len(Onsets) :
        /\ Onsets[j] => Levels[j + 1][1] = Min(20, Levels[j][1] + Severity)
        /\ ~Onsets[j] =>
              /\ Levels[j + 1][1] = Max(0, Levels[j][1] - RecoveryRate)
              /\ AtMost(Levels[j + 1], Levels[j])
              /\ Levels[j] = <<0, 0>> => Levels[j + 1] = <<0, 0>>
        /\ Levels[j + 1][1] >= Levels[j][1] - RecoveryRate
        /\ AtMost(<<0, 0>>, Levels[j + 1]) /\ AtMost(Levels[j + 1], <<20, 0>>)
        /\ netHist[Followed].trace[j].congestion_level = Levels[j + 1][1]

\* C26 as stated: each step moves the congestion level c to
\* min(1, c + congestion_severity) or to max(0, c - congestion_recovery_rate);
\* over consecutive steps without onset it is non-increasing and is exactly 0
\* after ceil(c / recovery_rate) steps, where it stays until the next onset.
C26_AsStated ==
    /\ StepsOnsetOrRecovery
    /\ \A j \in 1..Len(Levels) :
          QuietRun(j, CeilSteps(Levels[j]))
             => Levels[j + CeilSteps(Levels[j])] = <<0, 0>>

\* C26 amended: the same, except that the level is exactly 0 after
\* ceil(c / recovery_rate) + 1 steps without onset; after ceil(c /
\* recovery_rate) of them it is 0 or a rounding residue below 2^-50.
C26_RecoveryReachesZero ==
    /\ StepsOnsetOrRecovery
    /\ \A j \in 1..Len(Levels) :
          LET m == CeilSteps(Levels[j])
          IN  /\ QuietRun(j, m) =>
                    /\ Levels[j + m][1] = 0
                    /\ Levels[j + m][2] \in 0..640
              /\ QuietRun(j, m + 1) => Levels[j + m + 1] = <<0, 0>>

\* C26 witness: an onset to 0.8 was followed by four steps without onset at
\* recovery rate 0.2, which left a residue, and a fifth, which cleared it.
C26_Witness ==
    /\ Len(Onsets) = 6
    /\ Onsets[1] /\ QuietRun(2, 5)
    /\ Levels[2] = <<16, DoubleOf(16)>>
    /\ CeilSteps(Levels[2]) = 4
    /\ Levels[6][1] = 0 /\ Levels[6][2] > 0
    /\ Levels[7] = <<0, 0>>

----------------------------------------------------------------------------
(* Claims about the encoder.                                                *)

\* The target index as the specification words it: the highest ladder index
\* whose threshold is <= bandwidth * safety_factor, 0 if there is none.
HighestAdmissible(available_bandwidth_mbps, safety_factor) ==
    LET fits == { i \in 0..TopIndex :
                    Ladder(i).min_bandwidth_mbps * 100
                      <= available_bandwidth_mbps * safety_factor }
    IN  IF fits = {} THEN 0 ELSE CHOOSE i \in fits : \A j \in fits : j <= i

\* C8: from every encoder state and for either value of is_stalled, a step
\* with bandwidth below the lowest ladder threshold (0.5 Mbit/s) and
\* safety_factor <= 1 returns the lowest quality level (ladder index 0).
C8_LowBandwidthLowestLevel ==
    (/\ encCall.op = "step"
     /\ encoder.safety_factor <= 100
     /\ encCall.available_bandwidth_mbps < Ladder(0).min_bandwidth_mbps)
    => /\ encoder.quality_index = 0
       /\ encOut.quality = Ladder(0)
       /\ encOut.quality_name = "160p"

\* C8 witness: such a step taken at the top level, stalled, upgrade pending.
C8_Witness ==
    /\ encCall.op = "step"
    /\ encoder.safety_factor <= 100
    /\ encCall.available_bandwidth_mbps < Ladder(0).min_bandwidth_mbps
    /\ encCall.previous_index = TopIndex
    /\ encCall.is_stalled
    /\ encOut.quality_name = "160p"

\* C9 as stated: bandwidth above the highest ladder threshold (10.0 Mbit/s)
\* on at least upgrade_hysteresis consecutive steps leaves the encoder on
\* the highest level.
C9_AsStated ==
    (encCall.op = "step" /\ encCall.high_raw >= encoder.upgrade_hysteresis)
    => encoder.quality_index = TopIndex

\* C9 amended: from any encoder state, if bandwidth * safety_factor is at
\* least the highest ladder threshold (10.0 Mbit/s) on at least
\* upgrade_hysteresis consecutive steps, the selected quality after those
\* steps is the highest ladder level (1080p60).
C9_SustainedHighBandwidth ==
    (encCall.op = "step" /\ encCall.high_eff >= encoder.upgrade_hysteresis)
    => /\ encoder.quality_index = TopIndex
       /\ encOut.quality_name = "1080p60"

\* C9 witness: the third of three such steps committed the upgrade, from
\* more than one rung below the top.
C9_Witness ==
    /\ encCall.op = "step"
    /\ encoder.upgrade_hysteresis = 3
    /\ encCall.high_eff = 3
    /\ encCall.previous_index < TopIndex - 1
    /\ encOut.quality_switch
    /\ encoder.quality_index = TopIndex

\* C10: whenever the target index of a step is below the current index, the
\* encoder moves to exactly the target in that step, returns quality_switch
\* and resets the upgrade counter to 0.
C10_ImmediateDowngrade ==
    [][(/\ encCall'.op = "step"
        /\ HighestAdmissible(encCall'.available_bandwidth_mbps,
                             encoder.safety_factor) < encoder.quality_index)
       => LET target == HighestAdmissible(encCall'.available_bandwidth_mbps,
                                          encoder.safety_factor)
          IN  /\ encoder'.quality_index = target
              /\ encOut'.quality = Ladder(target)
              /\ encOut'.quality_switch
              /\ encoder'.consecutive_upgrade_steps = 0]_vars

\* C10 witness: one step took the encoder from the top level to index 0.
C10_Witness ==
    /\ encCall.op = "step"
    /\ encCall.previous_index = TopIndex
    /\ encCall.available_bandwidth_mbps < Ladder(0).min_bandwidth_mbps
    /\ encoder.quality_index = 0
    /\ encOut.quality_switch
    /\ encoder.consecutive_upgrade_steps = 0

\* C11: the quality index increases on a step only if that step is the
\* upgrade_hysteresis-th of consecutive steps whose target lay strictly above
\* the index in use; a step whose target equals the index, a downgrade and a
\* committed upgrade each leave the counter at 0, and otherwise the counter
\* is the length of the unbroken run, so eligible steps separated by such a
\* step never add up to an upgrade.
C11_UpgradeOnlyAfterHysteresis ==
    [][encCall'.op = "step" =>
         LET target == HighestAdmissible(encCall'.available_bandwidth_mbps,
                                         encoder.safety_factor)
             index == encoder.quality_index
         IN  /\ encoder'.quality_index > index =>
                   /\ target > index
                   /\ encCall'.eligible = encoder.upgrade_hysteresis
             /\ target = index => encoder'.consecutive_upgrade_steps = 0
             /\ target < index => encoder'.consecutive_upgrade_steps = 0
             /\ encoder'.quality_index > index =>
                   encoder'.consecutive_upgrade_steps = 0
             /\ (target > index /\ encoder'.quality_index = index) =>
                   /\ encoder'.consecutive_upgrade_steps = encCall'.eligible
                   /\ encCall'.eligible < encoder.upgrade_hysteresis]_vars

\* C11 witness: the fourth step committed an upgrade as the third of three
\* eligible steps, the first step having had no headroom.
C11_Witness ==
    /\ encCall.op = "step"
    /\ encCall.steps = 4
    /\ encoder.upgrade_hysteresis = 3
    /\ encCall.eligible = 3
    /\ encoder.quality_index > encCall.previous_index
    /\ encoder.consecutive_upgrade_steps = 0

\* C12 as stated: with av_sync_noise = 0, a stalled step that immediately
\* follows a non-stalled step at the same bandwidth leaves |av_sync_drift_ms|
\* strictly greater than the non-stalled step left it.
C12_AsStated ==
    (/\ encCall.op = "step"
     /\ encoder.av_sync_noise = 0
     /\ encCall.is_stalled
     /\ encCall.follows_playing)
    => Abs(encoder.av_sync_drift_ms) > Abs(encCall.previous_drift)

\* C12 amended: the same, provided the drift d the non-stalled step left
\* satisfies d * (1 - av_sync_decay) < 5.0 ms, the stall penalty.
C12_StallRaisesDrift ==
    (/\ encCall.op = "step"
     /\ encoder.av_sync_noise = 0
     /\ encCall.is_stalled
     /\ encCall.follows_playing
     /\ Abs(encCall.previous_drift) * (100 - encoder.av_sync_decay) < 5000 * 100)
    => /\ Abs(encoder.av_sync_drift_ms) > Abs(encCall.previous_drift)
       /\ encOut.av_sync_drift_ms = encoder.av_sync_drift_ms

\* C12 witness: such a stalled step after a non-stalled step that had left a
\* drift of its own.
C12_Witness ==
    /\ encCall.op = "step"
    /\ encoder.av_sync_noise = 0
    /\ encCall.is_stalled
    /\ encCall.follows_playing
    /\ encCall.previous_drift > 0
    /\ encCall.previous_drift * (100 - encoder.av_sync_decay) < 5000 * 100
    /\ encoder.av_sync_drift_ms > encCall.previous_drift

\* C24: the inflow rate step() returns is min(effective_bandwidth / total
\* bitrate of the quality selected in this same step, cap), cap being 3.0
\* when the is_stalled flag supplied is true and 2.0 otherwise; for bandwidth
\* >= 0 it lies in [0, 3.0] and is at most 2.0 when not stalled;
\* dropped_frames is true exactly when the inflow rate is < 1.0 or is_stalled
\* is true.
C24_InflowRateAndDroppedFrames ==
    encCall.op = "step" =>
        LET selected == Ladder(encoder.quality_index)
            cap == IF encCall.is_stalled THEN 300 ELSE 200
            uncapped == (encCall.available_bandwidth_mbps * encoder.safety_factor)
                          \div (selected.video_kbps + selected.audio_kbps)
        IN  /\ encOut.quality = selected
            /\ encOut.inflow_rate_s_per_s
                 = (IF uncapped <= cap THEN uncapped ELSE cap)
            /\ 0 <= encOut.inflow_rate_s_per_s
            /\ encOut.inflow_rate_s_per_s <= 300
            /\ ~encCall.is_stalled => encOut.inflow_rate_s_per_s <= 200
            /\ encOut.dropped_frames
                 <=> (encOut.inflow_rate_s_per_s < 100 \/ encCall.is_stalled)

\* C24 witness: a stalled step that committed an upgrade was served at the
\* stalled cap of 3.0, the new level's bitrate allowing more.
C24_Witness ==
    /\ encCall.op = "step" /\ encCall.is_stalled
    /\ encoder.quality_index > encCall.previous_index
    /\ encOut.inflow_rate_s_per_s = 300
    /\ encOut.dropped_frames
    /\ (encCall.available_bandwidth_mbps * encoder.safety_factor)
         \div total_kbps(Ladder(encoder.quality_index)) > 300

\* C25: with av_sync_noise = 0 every step sets the drift to
\* drift * av_sync_decay + 5.0 * (1 if is_stalled else 0)
\* + 2.0 * |index after - index before|; the drift is never negative; a step
\* that is neither stalled nor switches quality shrinks it by exactly the
\* factor av_sync_decay.
C25_DriftRecurrence ==
    (encoder.av_sync_noise = 0) =>
        /\ encoder.av_sync_drift_ms >= 0
        /\ encCall.op = "step" =>
             LET decayed == (encCall.previous_drift * encoder.av_sync_decay)
                              \div 100
                 moved == Abs(encoder.quality_index - encCall.previous_index)
             IN  /\ encoder.av_sync_drift_ms
                      = decayed + (IF encCall.is_stalled THEN 5000 ELSE 0)
                          + 2000 * moved
                 /\ encOut.av_sync_drift_ms = encoder.av_sync_drift_ms
                 /\ (~encCall.is_stalled /\ moved = 0) =>
                       /\ encoder.av_sync_drift_ms = decayed
                       /\ encoder.av_sync_drift_ms <= encCall.previous_drift
        /\ encCall.op = "reset" => encoder.av_sync_drift_ms = 0

\* C25 witness: a drift built up by a stall and a switch decayed on a later
\* step that was neither.
C25_Witness ==
    /\ encCall.op = "step" /\ encCall.steps >= 3
    /\ encoder.av_sync_noise = 0
    /\ ~encCall.is_stalled
    /\ encoder.quality_index = encCall.previous_index
    /\ encCall.previous_drift > 5000
    /\ encoder.av_sync_drift_ms
         = (encCall.previous_drift * encoder.av_sync_decay) \div 100
    /\ encoder.av_sync_drift_ms < encCall.previous_drift

\* C20 as stated: upgrades are capped at one ladder rung per hysteresis
\* window; on any encoder step the quality index after the step is at most
\* the index before the step plus 1.
C20_AsStated ==
    encCall.op = "step" =>
        encoder.quality_index <= encCall.previous_index + 1

\* C20 amended: a step leaves the quality index where it was or moves it
\* straight to the target index, however many rungs away, upwards as well as
\* downwards; the index after the step is at most the larger of the index
\* before and the target, and quality_switch is set exactly when it moved.
C20_StepStaysOrLandsOnTarget ==
    encCall.op = "step" =>
        LET target == HighestAdmissible(encCall.available_bandwidth_mbps,
                                        encoder.safety_factor)
        IN  /\ encoder.quality_index \in {encCall.previous_index, target}
            /\ encoder.quality_index <= Max(encCall.previous_index, target)
            /\ encOut.quality_switch
                 <=> encoder.quality_index # encCall.previous_index

\* C20 witness: a step committed an upgrade of more than one rung.
C20_Witness ==
    /\ encCall.op = "step"
    /\ encoder.quality_index >= encCall.previous_index + 2
    /\ encoder.quality_index
         = HighestAdmissible(encCall.available_bandwidth_mbps,
                             encoder.safety_factor)
    /\ encOut.quality_switch

----------------------------------------------------------------------------
(* Claims about the aggregator.                                             *)

\* The four scores of a report.
ScoreFields ==
    {"jerkiness_score", "av_sync_score", "quality_stability_score", "overall_qoe"}

\* C13: compute() returns the empty dict exactly when no snapshot is
\* recorded - on a fresh aggregator, and after reset() whatever had been
\* recorded before; the empty result carries no field, a non-empty one
\* carries the four scores.
C13_EmptyExactlyWhenNothingRecorded ==
    /\ metCall.op = "reset" => metrics.steps = <<>>
    /\ metCall.op = "compute" =>
          /\ metOut = EmptyDict <=> Len(metrics.steps) = 0
          /\ Len(metrics.steps) = 0 => DOMAIN metOut = {}
          /\ Len(metrics.steps) > 0 =>
                /\ ScoreFields \subseteq DOMAIN metOut
                /\ metOut.total_steps = Len(metrics.steps)

\* C13 witness: compute() returned the empty dict after a reset() that
\* cleared the 100 snapshots of two record loops.
C13_Witness ==
    /\ metCall.op = "compute"
    /\ metCall.loops = 2
    /\ metCall.cleared = 100
    /\ metrics.steps = <<>>
    /\ metOut = EmptyDict

\* Every recorded snapshot is stall-free, switch-free and drift-free.
CleanRun ==
    \A k \in 1..Len(metrics.steps) :
        /\ ~metrics.steps[k].is_stalled
        /\ ~metrics.steps[k].stall_event
        /\ ~metrics.steps[k].quality_switch
        /\ metrics.steps[k].av_sync_drift_ms = 0

\* The number of recorded snapshots with dropped frames.
DroppedSnapshots == CountFlag(metrics.steps, "dropped_frames")

\* C14 as stated: with default weights and threshold, 100 recorded snapshots
\* that are stall-free, switch-free and drift-free give overall_qoe >= 8.0
\* and stall_count = 0, whatever their dropped_frames flags.
C14_AsStated ==
    (/\ metCall.op = "compute"
     /\ metCall.cfg = QualityDefaults
     /\ Len(metrics.steps) = 100
     /\ CleanRun)
    => /\ metOut.overall_qoe >= 8000
       /\ metOut.stall_count = 0

\* C14 amended: the same, provided at most half of the 100 snapshots have
\* dropped_frames set.
C14_CleanRunScoresHigh ==
    (/\ metCall.op = "compute"
     /\ metCall.cfg = QualityDefaults
     /\ Len(metrics.steps) = 100
     /\ CleanRun
     /\ 2 * DroppedSnapshots <= 100)
    => /\ metOut.overall_qoe >= 8000
       /\ metOut.stall_count = 0

\* C14 witness: 100 clean snapshots, half of them with dropped frames, score
\* exactly 8.0.
C14_Witness ==
    /\ metCall.op = "compute"
    /\ metCall.cfg = QualityDefaults
    /\ Len(metrics.steps) = 100
    /\ CleanRun
    /\ DroppedSnapshots = 50
    /\ metOut.overall_qoe = 8000
    /\ metOut.stall_count = 0

\* C18: for every aggregator the constructor accepted and every non-empty
\* recorded sequence, the four scores compute() returns lie in [0, 10].
C18_ScoresBounded ==
    (metCall.op = "compute" /\ Len(metrics.steps) > 0) =>
        \A score \in ScoreFields : metOut[score] >= 0 /\ metOut[score] <= 10000

\* The number of recorded snapshots that satisfy P, and its ratio to the
\* number recorded (1/10000).
Recorded(P(_)) == Cardinality({k \in 1..Len(metrics.steps) : P(metrics.steps[k])})
RatioOf(count) == (count * 10000) \div Len(metrics.steps)

\* C30: for a non-empty series of n snapshots compute() returns stall_ratio =
\* (snapshots with is_stalled) / n, dropped_frame_ratio and the out-of-sync
\* ratio likewise, jerkiness = 10 * max(0, 1 - 3 * stall_ratio -
\* dropped_frame_ratio), sync = 10 * max(0, 1 - out_of_sync_ratio -
\* min(mean |drift| / (10 * threshold), 1)), stability = 10 * max(0, 1 -
\* switch_rate / 6), overall_qoe = the three scores weighted by the
\* configured weights, and stall_count = snapshots with stall_event.
C30_ComputeFormulas ==
    (metCall.op = "compute" /\ Len(metrics.steps) > 0) =>
        LET n == Len(metrics.steps)
            IsStalled(s) == s.is_stalled
            StallEvent(s) == s.stall_event
            Dropped(s) == s.dropped_frames
            Switched(s) == s.quality_switch
            OutOfSync(s) ==
                Abs(s.av_sync_drift_ms) > metrics.av_sync_threshold_ms * 1000
            total_drift == SumSeq([k \in 1..n |->
                                     Abs(metrics.steps[k].av_sync_drift_ms)])
            drift_term == ((total_drift \div n) \div metrics.av_sync_threshold_ms)
            switch_rate == (Recorded(Switched) * 60000) \div n
            jerkiness == 10000 - 3 * RatioOf(Recorded(IsStalled))
                           - RatioOf(Recorded(Dropped))
            sync == 10000 - RatioOf(Recorded(OutOfSync))
                      - (IF drift_term < 10000 THEN drift_term ELSE 10000)
            stability == 10000 - (switch_rate * 10) \div 6
        IN  /\ metOut.total_steps = n
            /\ metOut.stall_count = Recorded(StallEvent)
            /\ metOut.stall_ratio = RatioOf(Recorded(IsStalled))
            /\ metOut.dropped_frame_ratio = RatioOf(Recorded(Dropped))
            /\ metOut.av_out_of_sync_ratio = RatioOf(Recorded(OutOfSync))
            /\ metOut.quality_switch_rate = switch_rate
            /\ metOut.jerkiness_score = (IF jerkiness > 0 THEN jerkiness ELSE 0)
            /\ metOut.av_sync_score = (IF sync > 0 THEN sync ELSE 0)
            /\ metOut.quality_stability_score
                 = (IF stability > 0 THEN stability ELSE 0)
            /\ metOut.overall_qoe
                 = ((metrics.jerk_weight \div 2000000) * metOut.jerkiness_score
                    + (metrics.av_sync_weight \div 2000000) * metOut.av_sync_score
                    + (metrics.quality_stability_weight \div 2000000)
                        * metOut.quality_stability_score) \div 1000

\* C30 witness: compute() on 100 snapshots, some stalled and some out of
\* sync, returned a stall ratio strictly between 0 and 1 and scores that
\* differ from one another.
C30_Witness ==
    /\ metCall.op = "compute" /\ Len(metrics.steps) = 100
    /\ metOut.stall_ratio > 0 /\ metOut.stall_ratio < 10000
    /\ metOut.stall_count >= 1
    /\ metOut.av_out_of_sync_ratio > 0
    /\ metOut.av_sync_score > 0 /\ metOut.av_sync_score < 10000
    /\ metOut.jerkiness_score < metOut.av_sync_score
    /\ metOut.overall_qoe > 0

----------------------------------------------------------------------------
(* Claims about the orchestrator.                                           *)

\* The configuration a buffer, an encoder and an aggregator are built with.
BufferConfig(b) == <<b.max_level_s, b.rebuffer_threshold_s, b.drain_rate_s_per_s, b.dt>>
EncoderConfig(e) == <<e.safety_factor, e.upgrade_hysteresis, e.av_sync_decay, e.av_sync_noise>>
MetricsConfig(m) == [m EXCEPT !.steps = <<>>]

\* C29: each component's step changes only that component's own state.
\* NetworkCondition.step leaves buffer, encoder and aggregator as they are;
\* StreamEncoder.step changes only the encoder's index, upgrade counter,
\* drift and random stream, and not the buffer-state dict it is passed;
\* StreamBuffer.step changes only the buffer; record() appends exactly one
\* snapshot; compute() changes nothing, and called again returns the same.
C29_StepsChangeOwnStateOnly ==
    [][/\ (loop.pc = "network" /\ loop'.pc = "encoder") =>
            /\ UNCHANGED <<buffer, bufOut, encoder, encOut, metrics, metOut>>
            /\ nets'[Followed].cfg = nets[Followed].cfg
            /\ nets'[Followed].step = nets[Followed].step + 1
       /\ (loop.pc = "encoder" /\ loop'.pc = "buffer") =>
            /\ UNCHANGED <<buffer, bufOut, nets, metrics, metOut>>
            /\ loop'.prev_buffer_state = loop.prev_buffer_state
            /\ loop'.net = loop.net
            /\ EncoderConfig(encoder') = EncoderConfig(encoder)
            /\ encoder'.current_quality = Ladder(encoder'.quality_index)
       /\ (loop.pc = "buffer" /\ loop'.pc = "record") =>
            /\ UNCHANGED <<encoder, encOut, nets, metrics, metOut>>
            /\ BufferConfig(buffer') = BufferConfig(buffer)
       /\ (loop.pc = "record" /\ loop'.pc = "network") =>
            /\ UNCHANGED <<buffer, bufOut, encoder, encOut, nets, metOut>>
            /\ Len(metrics'.steps) = Len(metrics.steps) + 1
            /\ SubSeq(metrics'.steps, 1, Len(metrics.steps)) = metrics.steps
            /\ MetricsConfig(metrics') = MetricsConfig(metrics)
       /\ loop'.computes = loop.computes + 1 =>
            /\ UNCHANGED <<buffer, bufOut, encoder, encOut, nets, metrics>>
            /\ loop.computes >= 1 => metOut' = metOut]_vars

\* C29 witness: after a run of at least two passes in which the buffer
\* stalled and the encoder's drift moved, compute() was called a second time.
C29_Witness ==
    /\ loop.pc = "network" /\ loop.computes = 2
    /\ loop.total >= 2 /\ Len(metrics.steps) = loop.total
    /\ metOut # EmptyDict
    /\ \E k \in 1..Len(metrics.steps) : metrics.steps[k].is_stalled
    /\ buffer.stall_count >= 1
    /\ encoder.av_sync_drift_ms # 0

\* The result of the first pass of a run that begins with the buffer playing
\* at its rebuffer threshold and is fed the inflow the entry reports.
FirstPassFromThreshold(buffer_obj, entry) ==
    LET projected == buffer_obj.rebuffer_threshold_s
                       + (entry.inflow_rate_s_per_s
                            - buffer_obj.drain_rate_s_per_s) * buffer_obj.dt
    IN  /\ entry.buffer_level_s
             = (IF projected >= buffer_obj.max_level_s
                THEN buffer_obj.max_level_s
                ELSE IF projected <= 0 THEN 0 ELSE projected)
        /\ entry.is_stalled
             <=> (projected < buffer_obj.max_level_s /\ projected <= 0)
        /\ entry.stall_event <=> entry.is_stalled
        /\ entry.dropped_frames <=> entry.inflow_rate_s_per_s < 100

TimelineFields ==
    {"t", "bandwidth_mbps", "latency_ms", "packet_loss", "congestion_level",
     "buffer_level_s", "is_stalled", "stall_event", "quality_name",
     "av_sync_drift_ms", "inflow_rate_s_per_s", "dropped_frames"}

\* C15: every report of run() has a timeline of exactly int(duration_s / dt)
\* entries, the k-th (from 0) with t = k * dt and exactly the twelve
\* per-step fields; when a step ran, total_steps is the timeline's length.
C15_TimelineLength ==
    \A i \in Instances : \A r \in 1..Len(sims[i].reports) :
        LET report == sims[i].reports[r]
            duration_s == sims[i].obj.duration_s
            dt == sims[i].obj.dt
        IN  /\ Len(report.timeline) = duration_s \div dt
            /\ \A k \in 1..Len(report.timeline) :
                  /\ report.timeline[k].t = (k - 1) * dt
                  /\ DOMAIN report.timeline[k] = TimelineFields
            /\ Len(report.timeline) >= 1 =>
                  report.total_steps = Len(report.timeline)

\* C15 witness: a run of duration 60 and dt 1 returned 60 entries.
C15_Witness ==
    \E i \in Instances :
        /\ Len(sims[i].reports) >= 1
        /\ sims[i].obj.duration_s = 60
        /\ sims[i].obj.dt = 1
        /\ Len(sims[i].reports[1].timeline) = 60
        /\ sims[i].reports[1].timeline[60].t = 59
        /\ sims[i].reports[1].total_steps = 60

\* The ladder level of a name.
LevelNamed(name) ==
    CHOOSE level \in {Ladder(i) : i \in 0..TopIndex} : level.name = name

\* The buffer as pass k (from 1) of a run found it: the reset state for the
\* first pass, else what the timeline's entry k - 1 reports.
BufferBefore(i, timeline, k) ==
    IF k = 1
    THEN StreamBuffer_reset(sims[i].obj.buffer, None)
    ELSE [sims[i].obj.buffer EXCEPT !.level_s = timeline[k - 1].buffer_level_s,
                                    !.is_stalled = timeline[k - 1].is_stalled]

\* Entry k of a timeline is what the lagged order of calls produces.
LaggedPass(i, timeline, k) ==
    LET before == BufferBefore(i, timeline, k)
        entry == timeline[k]
        sf == sims[i].obj.encoder.safety_factor
        after == StreamBuffer_step(before, entry.inflow_rate_s_per_s).out
    IN  /\ entry.inflow_rate_s_per_s =
              Min((entry.bandwidth_mbps * sf)
                     \div total_kbps(LevelNamed(entry.quality_name)),
                  IF before.is_stalled THEN 300 ELSE 200)
        /\ entry.dropped_frames =
              (entry.inflow_rate_s_per_s < 100 \/ before.is_stalled)
        /\ entry.buffer_level_s = after.level_s
        /\ entry.is_stalled = after.is_stalled
        /\ entry.stall_event = after.stall_event

\* Snapshot k of the aggregator is the pair of outputs of pass k.
RecordedPass(snapshot, entry) ==
    /\ snapshot.is_stalled = entry.is_stalled
    /\ snapshot.stall_event = entry.stall_event
    /\ snapshot.buffer_level_s = entry.buffer_level_s
    /\ snapshot.av_sync_drift_ms = entry.av_sync_drift_ms
    /\ snapshot.quality_name = entry.quality_name
    /\ snapshot.dropped_frames = entry.dropped_frames

\* C16: in every pass k of run() the encoder is called with the bandwidth of
\* network step k and the buffer's is_stalled flag as it was before buffer
\* step k (the reset state for the first pass), the buffer is stepped with
\* the inflow rate the encoder returned in pass k, and the aggregator
\* records the outputs of pass k.
C16_EncoderSeesPreviousBuffer ==
    \A i \in Instances : \A r \in 1..Len(sims[i].reports) :
        LET timeline == sims[i].reports[r].timeline
        IN  /\ \A k \in 1..Len(timeline) : LaggedPass(i, timeline, k)
            /\ r = Len(sims[i].reports) =>
                  /\ Len(sims[i].obj.metrics.steps) = Len(timeline)
                  /\ \A k \in 1..Len(timeline) :
                        RecordedPass(sims[i].obj.metrics.steps[k], timeline[k])

\* C16 witness: a pass that found the buffer stalled delivered at 1x or more
\* and still reported dropped frames, and the buffer resumed on that inflow.
C16_Witness ==
    \E i \in Instances :
        /\ Len(sims[i].reports) >= 1
        /\ \E k \in 2..Len(sims[i].reports[1].timeline) :
              LET timeline == sims[i].reports[1].timeline
              IN  /\ timeline[k - 1].is_stalled
                  /\ timeline[k].inflow_rate_s_per_s >= 100
                  /\ timeline[k].dropped_frames
                  /\ ~timeline[k].is_stalled
                  /\ LaggedPass(i, timeline, k)

----------------------------------------------------------------------------
(* Claims about construction.                                               *)

\* The weights of quality_kwargs sum to 1 within 1e-9.
WeightsSumToOne(kwargs) ==
    LET sum == kwargs.jerk_weight + kwargs.av_sync_weight
                 + kwargs.quality_stability_weight
    IN  sum - WeightOne <= WeightTolerance /\ WeightOne - sum <= WeightTolerance

Smooth(report) ==
    \A k \in DOMAIN report.timeline :
        /\ ~report.timeline[k].is_stalled
        /\ ~report.timeline[k].dropped_frames

\* C19 as stated: of two first runs with the same seed and duration, the
\* stable network's overall_qoe is strictly higher than the poor network's.
C19_AsStated ==
    (Len(sims[Stable].reports) >= 1 /\ Len(sims[Poor].reports) >= 1) =>
        sims[Stable].reports[1].overall_qoe > sims[Poor].reports[1].overall_qoe

\* C19 amended: when neither run commits a quality switch and the stable
\* run has no stalled and no dropped-frame step, the stable run's
\* overall_qoe is strictly higher if the poor run has such a step, and the
\* two are equal if it has none.
C19_StableNotWorse ==
    (/\ Len(sims[Stable].reports) >= 1
     /\ Len(sims[Poor].reports) >= 1
     /\ sims[Stable].reports[1].quality_switch_count = 0
     /\ sims[Poor].reports[1].quality_switch_count = 0
     /\ Smooth(sims[Stable].reports[1]))
    => IF Smooth(sims[Poor].reports[1])
       THEN sims[Stable].reports[1].overall_qoe = sims[Poor].reports[1].overall_qoe
       ELSE sims[Stable].reports[1].overall_qoe > sims[Poor].reports[1].overall_qoe

\* C19 witness: both cases - a poor run that dropped frames and scored
\* lower - on runs without a switch.
C19_Witness ==
    /\ Len(sims[Stable].reports) >= 1
    /\ Len(sims[Poor].reports) >= 1
    /\ sims[Stable].reports[1].quality_switch_count = 0
    /\ sims[Poor].reports[1].quality_switch_count = 0
    /\ Smooth(sims[Stable].reports[1])
    /\ ~Smooth(sims[Poor].reports[1])
    /\ sims[Stable].reports[1].overall_qoe > sims[Poor].reports[1].overall_qoe

----------------------------------------------------------------------------
(* Claims about determinism.                                                *)

\* Some pass of the timeline stalled playback or changed the network's output.
Eventful(report) ==
    /\ \E k \in DOMAIN report.timeline : report.timeline[k].is_stalled
    /\ \E j, k \in DOMAIN report.timeline :
          report.timeline[j].bandwidth_mbps # report.timeline[k].bandwidth_mbps

\* C3: two simulations constructed with the same configuration and the same
\* seed return, from their k-th call of run(), the same scores and the same
\* timeline, every field of every step equal; and two network generators
\* constructed with the same configuration and seed produce the same sample
\* on every step both have taken.
C3_SameSeedSameOutput ==
    \A i, j \in Instances :
        sims[i].seed # None /\ sims[i].seed = sims[j].seed =>
            /\ \A k \in 1..Min(Len(sims[i].reports), Len(sims[j].reports)) :
                  sims[i].reports[k] = sims[j].reports[k]
            /\ \A k \in 1..Min(Len(netHist[i].trace), Len(netHist[j].trace)) :
                  netHist[i].trace[k] = netHist[j].trace[k]

C3_Witness ==
    /\ sims[1].seed # None
    /\ Len(sims[1].reports) >= 1
    /\ Len(sims[2].reports) >= 1
    /\ sims[1].reports[1] = sims[2].reports[1]
    /\ Eventful(sims[1].reports[1])
    /\ sims[1].reports[1].total_steps = 3
    /\ Len(netHist[1].trace) >= 2
    /\ Len(netHist[2].trace) >= 2
    /\ netHist[1].trace[2] = netHist[2].trace[2]
    /\ netHist[1].trace[1] # netHist[1].trace[2]

\* C4: calling run() twice on one simulation constructed with a seed returns
\* the same scores and the same timeline both times.
C4_RepeatedRunSameOutput ==
    \A i \in Instances :
        sims[i].seed # None /\ Len(sims[i].reports) >= 2 =>
            sims[i].reports[1] = sims[i].reports[2]

----------------------------------------------------------------------------
(* Claims about what the scores compare.                                    *)

\* A snapshot with no stall, no dropped frames, no switch and no drift.
CleanStep(snapshot) ==
    /\ ~snapshot.is_stalled
    /\ ~snapshot.stall_event
    /\ ~snapshot.dropped_frames
    /\ ~snapshot.quality_switch
    /\ snapshot.av_sync_drift_ms = 0

\* The aggregator had it recorded the clean series of the same length: every
\* snapshot as recorded but for the flags and the drift.
CleanSeries(self) ==
    [self EXCEPT !.steps = [k \in DOMAIN @ |->
        [@[k] EXCEPT !.is_stalled = FALSE, !.stall_event = FALSE,
                     !.dropped_frames = FALSE, !.quality_switch = FALSE,
                     !.av_sync_drift_ms = 0]]]

\* Every recorded snapshot is clean but for what P allows, and P holds of
\* the snapshots in `where`.
DiffersOnly(where, P(_), Clean(_)) ==
    /\ where # {}
    /\ \A k \in DOMAIN metrics.steps :
          IF k \in where THEN P(metrics.steps[k]) /\ Clean(metrics.steps[k])
          ELSE CleanStep(metrics.steps[k])

\* C31: with the default weights, a recorded series that differs from the
\* clean series of its length only by some steps being stalled with dropped
\* frames has a strictly lower overall_qoe than the clean series; one that
\* differs only by a drift other than zero on every step has a strictly lower
\* av_sync_score; one that differs only by a switch on every step has a
\* strictly lower quality_stability_score.
C31_PenaltiesLowerScores ==
    /\ Constructed(metrics)
    /\ Len(metrics.steps) >= 1
    /\ metrics.jerk_weight = QualityDefaults.jerk_weight
    /\ metrics.av_sync_weight = QualityDefaults.av_sync_weight
    /\ metrics.quality_stability_weight = QualityDefaults.quality_stability_weight
    =>
    LET series == QualityMetrics_compute(metrics)
        clean == QualityMetrics_compute(CleanSeries(metrics))
        every == DOMAIN metrics.steps
        stalled == {k \in every : metrics.steps[k].is_stalled}
    IN  /\ DiffersOnly(stalled,
                       LAMBDA t : t.is_stalled /\ t.dropped_frames,
                       LAMBDA t : ~t.quality_switch /\ t.av_sync_drift_ms = 0)
           => series.overall_qoe < clean.overall_qoe
        /\ DiffersOnly(every,
                       LAMBDA t : t.av_sync_drift_ms # 0,
                       LAMBDA t : ~t.is_stalled /\ ~t.stall_event
                                  /\ ~t.dropped_frames /\ ~t.quality_switch)
           => series.av_sync_score < clean.av_sync_score
        /\ DiffersOnly(every,
                       LAMBDA t : t.quality_switch,
                       LAMBDA t : ~t.is_stalled /\ ~t.stall_event
                                  /\ ~t.dropped_frames /\ t.av_sync_drift_ms = 0)
           => series.quality_stability_score < clean.quality_stability_score

\* The test's series, computed: fifty steps stalled with dropped frames and
\* fifty clean ones, scored below the hundred clean steps.
C31_Witness ==
    /\ Constructed(metrics)
    /\ metCall.cfg = QualityDefaults
    /\ metCall.op = "compute"
    /\ Len(metrics.steps) = 100
    /\ Cardinality({k \in 1..100 : metrics.steps[k].is_stalled
                                    /\ metrics.steps[k].dropped_frames}) = 50
    /\ Cardinality({k \in 1..100 : CleanStep(metrics.steps[k])}) = 50
    /\ metOut = QualityMetrics_compute(metrics)
    /\ metOut.overall_qoe
         < QualityMetrics_compute(CleanSeries(metrics)).overall_qoe

\* C32: the quality_switch_rate of every report of run() is the number of
\* quality switches per minute of simulated time, the switch count divided by
\* total_steps * dt / 60 (in 1/1000 per minute), whatever the step size dt.
C32_SwitchesPerSimulatedMinute ==
    \A i \in Instances :
        \A k \in 1..Len(sims[i].reports) :
            LET report == sims[i].reports[k]
            IN  "total_steps" \in DOMAIN report =>
                    report.quality_switch_rate
                      = (report.quality_switch_count * 60000)
                          \div (report.total_steps * sims[i].obj.dt)

\* C33: after run(), the total_stall_time_s of the report it returned is the
\* stall time the buffer accumulated during that run (seconds), and the
\* report's stall_count is the buffer's stall_count.
C33_ReportMatchesBuffer ==
    \A i \in Instances :
        LET runs == Len(sims[i].reports)
        IN  runs >= 1 /\ "total_steps" \in DOMAIN sims[i].reports[runs] =>
              /\ sims[i].reports[runs].total_stall_time_s
                   = sims[i].obj.buffer.total_stall_time_s
              /\ sims[i].reports[runs].stall_count
                   = sims[i].obj.buffer.stall_count

----------------------------------------------------------------------------
(* Claims about the level the encoder serves.                               *)

\* C34: after every StreamEncoder.step the selected index is within the
\* ladder, 0..6, and at most the target index of that step: the selected
\* level's min_bandwidth_mbps is at most available_bandwidth * safety_factor
\* or the selected level is index 0.  So whenever the effective bandwidth is
\* at least the lowest threshold (0.5 Mbps) the inflow rate is at least 1.0
\* and dropped_frames is set only if the buffer is stalled.
C34_SelectedWithinTarget ==
    encCall.op = "step" =>
        LET eff == EffectiveBandwidth(encoder, encCall.available_bandwidth_mbps)
            target_index == select_quality_index(encoder, eff)
            selected == encoder.quality_index
        IN  /\ selected \in 0..6
            /\ TopIndex = 6
            /\ selected <= target_index
            /\ \/ Ladder(selected).min_bandwidth_mbps * 100 <= eff
               \/ selected = 0
            /\ encOut.quality = Ladder(selected)
            /\ eff >= Ladder(0).min_bandwidth_mbps * 100 =>
                  /\ encOut.inflow_rate_s_per_s >= 100
                  /\ encOut.dropped_frames => encCall.is_stalled

\* A step that found the encoder on a higher level than the bandwidth now
\* carries: it came down by several rungs to a level above the lowest, which
\* the effective bandwidth covers, and served it at a rate of 1.0 or more
\* with no frame dropped.
C34_Witness ==
    /\ encCall.op = "step" /\ ~encCall.is_stalled
    /\ encCall.previous_index > encoder.quality_index + 1
    /\ encoder.quality_index >= 1
    /\ Ladder(encoder.quality_index).min_bandwidth_mbps * 100
         <= EffectiveBandwidth(encoder, encCall.available_bandwidth_mbps)
    /\ encOut.inflow_rate_s_per_s >= 100
    /\ encOut.inflow_rate_s_per_s < 200
    /\ ~encOut.dropped_frames

----------------------------------------------------------------------------
(* Claims about stalls in the timeline.                                     *)

\* The buffer of simulation i drains at 1.0 and resumes above level 0.
DrainsAtPlaybackSpeed(i) ==
    /\ sims[i].obj.buffer.rebuffer_threshold_s > 0
    /\ sims[i].obj.buffer.drain_rate_s_per_s = 100

\* C35: in a run() whose buffer has a rebuffer threshold above 0 and the
\* drain rate 1.0 (the defaults among them), every timeline entry with
\* is_stalled has dropped_frames: a stall begins only on an inflow rate below
\* 1.0, and a step that started stalled is served with the lagged flag set;
\* and no entry, nor the buffer after the run, is at level 0 without being
\* stalled.
C35_StalledEntriesDropFrames ==
    \A i \in Instances :
        DrainsAtPlaybackSpeed(i) =>
            /\ \A k \in 1..Len(sims[i].reports) :
                  \A j \in 1..Len(sims[i].reports[k].timeline) :
                      LET entry == sims[i].reports[k].timeline[j]
                      IN  /\ entry.is_stalled => entry.dropped_frames
                          /\ entry.stall_event => entry.inflow_rate_s_per_s < 100
                          /\ entry.buffer_level_s = 0 => entry.is_stalled
            /\ sims[i].obj.buffer.level_s = 0 => sims[i].obj.buffer.is_stalled

\* A run of the default buffer in which a stall began on an inflow rate below
\* 1.0 and a later step, served at 1.0 or more, ended stalled still: both
\* entries have dropped_frames.
C35_Witness ==
    \E i \in Instances :
        /\ sims[i].obj.buffer.rebuffer_threshold_s
             = BufferDefaults.rebuffer_threshold_s
        /\ sims[i].obj.buffer.max_level_s = BufferDefaults.max_level_s
        /\ DrainsAtPlaybackSpeed(i)
        /\ Len(sims[i].reports) >= 1
        /\ LET timeline == sims[i].reports[1].timeline
           IN  \E j, k \in 1..Len(timeline) :
                  /\ j < k
                  /\ timeline[j].stall_event
                  /\ timeline[j].inflow_rate_s_per_s < 100
                  /\ timeline[j].dropped_frames
                  /\ \A m \in j..k : timeline[m].is_stalled
                  /\ timeline[k].inflow_rate_s_per_s >= 100
                  /\ timeline[k].dropped_frames

\* C36: on a buffer stepped from its constructed or reset state, no step
\* returns stall_event and resume_event together; stall_event is returned
\* exactly by the steps that take is_stalled from false to true and
\* resume_event exactly by those that take it from true to false; the events
\* alternate, the first being a stall; and stall_count less the number of
\* resume events is 1 while the buffer is stalled and 0 otherwise.
C36_StallAndResumeAlternate ==
    [][/\ bufCall'.op = "step" =>
            /\ ~(bufOut'.stall_event /\ bufOut'.resume_event)
            /\ bufOut'.stall_event <=> (~buffer.is_stalled /\ buffer'.is_stalled)
            /\ bufOut'.resume_event <=> (buffer.is_stalled /\ ~buffer'.is_stalled)
            /\ bufOut'.stall_event => bufCall.last_event \in {"none", "resume"}
            /\ bufOut'.resume_event => bufCall.last_event = "stall"
       /\ buffer'.stall_count - bufCall'.resumes
            = (IF buffer'.is_stalled THEN 1 ELSE 0)]_vars

\* The second resume of a buffer: two stalls counted, two resume events, and
\* playback going again.
C36_Witness ==
    /\ bufCall.op = "step"
    /\ bufCall.was_stalled
    /\ bufOut.resume_event
    /\ ~bufOut.stall_event
    /\ ~buffer.is_stalled
    /\ buffer.stall_count = 2
    /\ bufCall.resumes = 2

============================================================================
